---- MODULE Spec2Model ----
(***************************************************************************)
(* Model of the gem5 statistics post-processing scripts:                   *)
(*   CortexA15/plot_performance_cortexA15.py   (script "A15perf")          *)
(*   CortexA15/plot_ipc_cortexA15.py           (script "A15ipc")           *)
(*   CortexA7/plot_speedup_cortexA7.py         (script "A7speedup")        *)
(*   CortexA7/plot_cycles_cortexA7.py          (script "A7cycles")         *)
(*   CortexA7/plot_ipc_max_cortexA7.py         (script "A7ipc")            *)
(*                                                                         *)
(* Text is modelled at the level the regular expressions look at it:       *)
(* a stripped log line is its first token (the label), its second token    *)
(* (a sequence of characters) and whether more tokens follow; a directory  *)
(* name and a STATUS.txt content are sequences of characters.              *)
(* Python's None is <<>> and a present value v is <<v>>.  A float that is  *)
(* the quotient of two integers is the pair <<numerator, denominator>>.    *)
(***************************************************************************)
EXTENDS Integers, Sequences, FiniteSets, TLC

(***************************************************************************)
(* Characters and numbers in text                                          *)
(***************************************************************************)
Digits == {"0", "1", "2", "3", "4", "5", "6", "7", "8", "9"}

Letters == {"a", "b", "c", "d", "e", "f", "i", "j", "k", "m", "n", "o", "p",
            "r", "s", "t", "u", "w", "x", "A", "D", "E", "F", "I", "K", "L", "O"}

\* \w of Python's re: letters, digits and the underscore.
WordChars == Digits \cup Letters \cup {"_"}

\* str.strip() removes these.
Whitespace == {" ", "\n", "\t"}

DigitVal(c) ==
    CASE c = "0" -> 0 [] c = "1" -> 1 [] c = "2" -> 2 [] c = "3" -> 3
      [] c = "4" -> 4 [] c = "5" -> 5 [] c = "6" -> 6 [] c = "7" -> 7
      [] c = "8" -> 8 [] c = "9" -> 9

\* int(text) for a text made of digits only.
RECURSIVE ToInt(_)
ToInt(ds) ==
    IF ds = <<>> THEN 0
    ELSE 10 * ToInt(SubSeq(ds, 1, Len(ds) - 1)) + DigitVal(ds[Len(ds)])

\* Length of the longest run of digits of s that starts at position i.
RECURSIVE DigitRun(_, _)
DigitRun(s, i) ==
    IF i > Len(s) \/ s[i] \notin Digits THEN 0 ELSE 1 + DigitRun(s, i + 1)

\* \b after position n of a token: the token ends there (whitespace or the end
\* of the line follows), or the next character is not a word character.
Boundary(tok, n) == n = Len(tok) \/ tok[n + 1] \notin WordChars

None == <<>>

Some(v) == <<v>>

(***************************************************************************)
(* Rational numbers <<n, d>> (the floats the scripts compute are quotients *)
(* of integers; the model keeps them exact)                                *)
(***************************************************************************)
RatLeq(a, b) == a[1] * b[2] <= b[1] * a[2]

RatEq(a, b) == a[1] * b[2] = b[1] * a[2]

\* max() of a non-empty list of integers.
MaxOf(xs) == CHOOSE m \in {xs[i] : i \in 1..Len(xs)} : \A j \in 1..Len(xs) : xs[j] <= m

\* max() of a non-empty list of floats: the first of the largest values.
MaxRatOf(xs) ==
    xs[CHOOSE i \in 1..Len(xs) :
         /\ \A j \in 1..Len(xs) : RatLeq(xs[j], xs[i])
         /\ \A j \in 1..(i - 1) : ~RatLeq(xs[i], xs[j])]

RECURSIVE Pow10(_)
Pow10(k) == IF k = 0 THEN 1 ELSE 10 * Pow10(k - 1)

\* int(round(n / d)) for n >= 0, d > 0: Python 3 rounds a tie to the even integer.
PyRound(n, d) ==
    LET q == n \div d
        r == n % d
    IN  IF 2 * r < d THEN q
        ELSE IF 2 * r > d THEN q + 1
        ELSE IF q % 2 = 0 THEN q ELSE q + 1

(***************************************************************************)
(* Log lines and the regular expressions of the scripts                    *)
(***************************************************************************)
\* A stripped line: label is its first token ("" for an empty line), val its
\* second token (<<>> when there is none), more whether further tokens follow.
Line(label, val, more) == [label |-> label, val |-> val, more |-> more]

\* system\.cpu\d*\.numCycles, with the text the \d* part matched.
NumCyclesLabels ==
    {"system.cpu.numCycles", "system.cpu0.numCycles", "system.cpu1.numCycles"}

CpuOf(label) ==
    CASE label = "system.cpu.numCycles" -> ""
      [] label = "system.cpu0.numCycles" -> "0"
      [] label = "system.cpu1.numCycles" -> "1"

IpcLabels == {"system.cpu.ipc", "system.cpu0.ipc", "system.cpu1.ipc"}

\* (\d+)\b at the start of the value token: None, or the integer matched.
IntGroup(tok) ==
    LET n == DigitRun(tok, 1)
    IN  IF n > 0 /\ Boundary(tok, n) THEN Some(ToInt(SubSeq(tok, 1, n))) ELSE None

\* (\d+(?:\.\d+)?)\b at the start of the value token, as float() reads the match:
\* the fraction is taken if a boundary follows it, else the integer part alone
\* is tried.
FloatGroup(tok) ==
    LET n == DigitRun(tok, 1)
        m == IF n > 0 /\ n < Len(tok) /\ tok[n + 1] = "." THEN DigitRun(tok, n + 2) ELSE 0
    IN  IF n = 0 THEN None
        ELSE IF m > 0 /\ Boundary(tok, n + 1 + m)
             THEN Some(<<ToInt(SubSeq(tok, 1, n) \o SubSeq(tok, n + 2, n + 1 + m)), Pow10(m)>>)
        ELSE IF Boundary(tok, n) THEN Some(<<ToInt(SubSeq(tok, 1, n)), 1>>)
        ELSE None

\* ^system\.cpu(?:\d+)?\.numCycles\s+(\d+)\b  (the same expression, up to the
\* spelling of the digit class, in all five scripts)
NUM_CYCLES_RE(line) ==
    IF line.label \in NumCyclesLabels THEN IntGroup(line.val) ELSE None

\* ^system\.cpu\d*\.ipc\s+(?P<value>\d+(?:\.\d+)?)\b
IPC_RE(line) ==
    IF line.label \in IpcLabels THEN FloatGroup(line.val) ELSE None

\* ^sim_insts\s+(?P<value>\d+)\b
SIM_INS_RE(line) ==
    IF line.label = "sim_insts" THEN IntGroup(line.val) ELSE None

\* ^sim_ticks\s+(\d+)\b
SIM_TICKS_RE(line) ==
    IF line.label = "sim_ticks" THEN IntGroup(line.val) ELSE None

\* ^system\.cpu_clk_domain\.clock\s+(\d+)\b
CPU_CLOCK_RE(line) ==
    IF line.label = "system.cpu_clk_domain.clock" THEN IntGroup(line.val) ELSE None

\* ^system\.clk_domain\.clock\s+(\d+)\b
SYS_CLOCK_RE(line) ==
    IF line.label = "system.clk_domain.clock" THEN IntGroup(line.val) ELSE None

(***************************************************************************)
(* The parsers.  Each is its loop body (one line), the code after the      *)
(* loop, and the two put together over a whole file.                       *)
(***************************************************************************)
\* The local variables of a parser before its loop.
Acc0 ==
    [cycles |-> <<>>, by_cpu |-> <<>>, ipc_vals |-> <<>>, sim_insts |-> 0,
     sim_ticks |-> None, cpu_clock |-> None, sys_clock |-> None]

\* What a parser returns (ok) or the ValueError it raises (~ok).
Record(cycles, sim_insts, ipc_global, ipc_max) ==
    [ok |-> TRUE, cycles |-> cycles, sim_insts |-> sim_insts,
     ipc_global |-> ipc_global, ipc_max |-> ipc_max, error |-> ""]

ValueError(msg) ==
    [ok |-> FALSE, cycles |-> 0, sim_insts |-> 0,
     ipc_global |-> None, ipc_max |-> None, error |-> msg]

\* cycles[key] = value on a dict kept as its list of <<key, value>> items.
DictSet(d, key, value) ==
    IF \E i \in 1..Len(d) : d[i][1] = key
    THEN [i \in 1..Len(d) |-> IF d[i][1] = key THEN <<key, value>> ELSE d[i]]
    ELSE Append(d, <<key, value>>)

DictValues(d) == [i \in 1..Len(d) |-> d[i][2]]

\* plot_performance_cortexA15.parse_cycles, the body of its loop.
parse_cycles_line(acc, line) ==
    IF line.label = "" THEN acc
    ELSE IF NUM_CYCLES_RE(line) # None
         THEN [acc EXCEPT !.cycles = Append(@, NUM_CYCLES_RE(line)[1])]
    ELSE IF acc.sim_ticks = None /\ SIM_TICKS_RE(line) # None
         THEN [acc EXCEPT !.sim_ticks = SIM_TICKS_RE(line)]
    ELSE IF acc.cpu_clock = None /\ CPU_CLOCK_RE(line) # None
         THEN [acc EXCEPT !.cpu_clock = CPU_CLOCK_RE(line)]
    ELSE IF acc.sys_clock = None /\ SYS_CLOCK_RE(line) # None
         THEN [acc EXCEPT !.sys_clock = SYS_CLOCK_RE(line)]
    ELSE acc

\* int(round(sim_ticks / period)) of parse_cycles.
DerivedCycles(sim_ticks, period) == PyRound(sim_ticks, period)

\* A faulty variant of parse_cycles_end (the system-wide clock period taken
\* first), which property C3 must tell apart from the code.
parse_cycles_end_sys_clock_first(acc) ==
    IF acc.cycles # <<>> THEN Record(MaxOf(acc.cycles), 0, None, None)
    ELSE IF acc.sim_ticks # None
         THEN LET period == IF acc.sys_clock # None THEN acc.sys_clock ELSE acc.cpu_clock
              IN  IF period # None /\ period[1] # 0 /\ period[1] > 0
                  THEN Record(DerivedCycles(acc.sim_ticks[1], period[1]), 0, None, None)
                  ELSE ValueError("Impossible d'extraire les cycles")
    ELSE ValueError("Impossible d'extraire les cycles")

\* plot_performance_cortexA15.parse_cycles, after its loop.
parse_cycles_end(acc) ==
    IF acc.cycles # <<>> THEN Record(MaxOf(acc.cycles), 0, None, None)
    ELSE IF acc.sim_ticks # None
         THEN LET period == IF acc.cpu_clock # None THEN acc.cpu_clock ELSE acc.sys_clock
              IN  IF period # None /\ period[1] # 0 /\ period[1] > 0
                  THEN Record(DerivedCycles(acc.sim_ticks[1], period[1]), 0, None, None)
                  ELSE ValueError("Impossible d'extraire les cycles")
    ELSE ValueError("Impossible d'extraire les cycles")

\* plot_cycles_cortexA7.parse_cycles, the body of its loop.
parse_cycles_A7cycles_line(acc, line) ==
    IF line.label = "" THEN acc
    ELSE IF NUM_CYCLES_RE(line) # None
         THEN [acc EXCEPT !.cycles = Append(@, NUM_CYCLES_RE(line)[1])]
    ELSE IF acc.sim_ticks = None /\ SIM_TICKS_RE(line) # None
         THEN [acc EXCEPT !.sim_ticks = SIM_TICKS_RE(line)]
    ELSE IF acc.cpu_clock = None /\ CPU_CLOCK_RE(line) # None
         THEN [acc EXCEPT !.cpu_clock = CPU_CLOCK_RE(line)]
    ELSE IF acc.sys_clock = None /\ SYS_CLOCK_RE(line) # None
         THEN [acc EXCEPT !.sys_clock = SYS_CLOCK_RE(line)]
    ELSE acc

\* plot_cycles_cortexA7.parse_cycles, after its loop.
parse_cycles_A7cycles_end(acc) ==
    IF acc.cycles # <<>> THEN Record(MaxOf(acc.cycles), 0, None, None)
    ELSE IF acc.sim_ticks # None
         THEN LET clock_period == IF acc.cpu_clock # None THEN acc.cpu_clock ELSE acc.sys_clock
              IN  IF clock_period # None /\ clock_period[1] # 0 /\ clock_period[1] > 0
                  THEN Record(PyRound(acc.sim_ticks[1], clock_period[1]), 0, None, None)
                  ELSE ValueError("Impossible d'extraire les cycles")
    ELSE ValueError("Impossible d'extraire les cycles")

\* plot_speedup_cortexA7.parse_cycles, the body of its loop.
parse_cycles_A7speedup_line(acc, line) ==
    IF NUM_CYCLES_RE(line) # None
    THEN [acc EXCEPT !.cycles = Append(@, NUM_CYCLES_RE(line)[1])]
    ELSE acc

\* plot_speedup_cortexA7.parse_cycles, after its loop.
parse_cycles_A7speedup_end(acc) ==
    IF acc.cycles = <<>> THEN ValueError("Aucune ligne numCycles trouvee")
    ELSE Record(MaxOf(acc.cycles), 0, None, None)

\* plot_ipc_cortexA15.parse_stats, the body of its loop.
parse_stats_line(acc, line) ==
    IF NUM_CYCLES_RE(line) # None
    THEN [acc EXCEPT !.cycles = Append(@, NUM_CYCLES_RE(line)[1])]
    ELSE IF IPC_RE(line) # None
         THEN [acc EXCEPT !.ipc_vals = Append(@, IPC_RE(line)[1])]
    ELSE IF SIM_INS_RE(line) # None
         THEN [acc EXCEPT !.sim_insts = SIM_INS_RE(line)[1]]
    ELSE acc

\* A faulty variant of parse_stats_end (sim_insts not checked), which
\* property C4 must tell apart from the code.
parse_stats_end_sim_insts_unchecked(acc) ==
    IF acc.cycles = <<>> THEN ValueError("Aucune ligne numCycles")
    ELSE IF acc.ipc_vals = <<>> THEN ValueError("Aucune ligne IPC")
    ELSE IF MaxOf(acc.cycles) <= 0 THEN ValueError("Aucun cycle valide")
    ELSE Record(MaxOf(acc.cycles), acc.sim_insts,
                Some(<<acc.sim_insts, MaxOf(acc.cycles)>>), Some(MaxRatOf(acc.ipc_vals)))

\* plot_ipc_cortexA15.parse_stats, after its loop.
parse_stats_end(acc) ==
    IF acc.cycles = <<>> THEN ValueError("Aucune ligne numCycles")
    ELSE IF acc.ipc_vals = <<>> THEN ValueError("Aucune ligne IPC")
    ELSE IF acc.sim_insts <= 0 THEN ValueError("Aucune valeur sim_insts valide")
    ELSE IF MaxOf(acc.cycles) <= 0 THEN ValueError("Aucun cycle valide")
    ELSE Record(MaxOf(acc.cycles), acc.sim_insts,
                Some(<<acc.sim_insts, MaxOf(acc.cycles)>>), Some(MaxRatOf(acc.ipc_vals)))

\* plot_ipc_max_cortexA7.parse_config, the body of its loop.
parse_config_line(acc, line) ==
    IF NUM_CYCLES_RE(line) # None
    THEN [acc EXCEPT !.by_cpu = DictSet(@, CpuOf(line.label), NUM_CYCLES_RE(line)[1])]
    ELSE IF SIM_INS_RE(line) # None
         THEN [acc EXCEPT !.sim_insts = SIM_INS_RE(line)[1]]
    ELSE acc

\* plot_ipc_max_cortexA7.parse_config, after its loop.
parse_config_end(acc) ==
    IF acc.by_cpu = <<>> THEN ValueError("Aucune ligne numCycles")
    ELSE IF acc.sim_insts <= 0 THEN ValueError("Aucune valeur sim_insts valide")
    ELSE IF MaxOf(DictValues(acc.by_cpu)) <= 0 THEN ValueError("Aucun cycle valide")
    ELSE Record(MaxOf(DictValues(acc.by_cpu)), acc.sim_insts,
                Some(<<acc.sim_insts, MaxOf(DictValues(acc.by_cpu))>>), None)

\* The five parsers, by the script they belong to.
Scripts == {"A15perf", "A15ipc", "A7speedup", "A7cycles", "A7ipc"}

ParseLine(s, acc, line) ==
    CASE s = "A15perf" -> parse_cycles_line(acc, line)
      [] s = "A7cycles" -> parse_cycles_A7cycles_line(acc, line)
      [] s = "A7speedup" -> parse_cycles_A7speedup_line(acc, line)
      [] s = "A15ipc" -> parse_stats_line(acc, line)
      [] s = "A7ipc" -> parse_config_line(acc, line)

ParseEnd(s, acc) ==
    CASE s = "A15perf" -> parse_cycles_end(acc)
      [] s = "A7cycles" -> parse_cycles_A7cycles_end(acc)
      [] s = "A7speedup" -> parse_cycles_A7speedup_end(acc)
      [] s = "A15ipc" -> parse_stats_end(acc)
      [] s = "A7ipc" -> parse_config_end(acc)

\* The parser of script s run over a whole file (a sequence of lines).
RECURSIVE ParseLoop(_, _, _)
ParseLoop(s, acc, lines) ==
    IF lines = <<>> THEN acc
    ELSE ParseLoop(s, ParseLine(s, acc, Head(lines)), Tail(lines))

ParseFile(s, lines) == ParseEnd(s, ParseLoop(s, Acc0, lines))

(***************************************************************************)
(* Directory names and the naming grammars                                 *)
(***************************************************************************)
\* ord() of the characters that occur in directory names.
Ord(c) ==
    IF c \in Digits THEN 48 + DigitVal(c)
    ELSE CASE c = "_" -> 95 [] c = "a" -> 97 [] c = "b" -> 98 [] c = "c" -> 99
           [] c = "j" -> 106 [] c = "k" -> 107 [] c = "n" -> 110 [] c = "p" -> 112
           [] c = "s" -> 115 [] c = "t" -> 116 [] c = "u" -> 117 [] c = "w" -> 119
           [] c = "x" -> 120

\* a < b for Python strings: the order sorted(..., key=lambda p: p.name) uses.
RECURSIVE StrLess(_, _)
StrLess(a, b) ==
    IF b = <<>> THEN FALSE
    ELSE IF a = <<>> THEN TRUE
    ELSE IF Ord(a[1]) # Ord(b[1]) THEN Ord(a[1]) < Ord(b[1])
    ELSE StrLess(Tail(a), Tail(b))

\* sorted(root.iterdir(), key=lambda p: p.name) of a directory holding `names`.
RECURSIVE SortedByName(_)
SortedByName(names) ==
    IF names = {} THEN <<>>
    ELSE LET first == CHOOSE n \in names : \A m \in names \ {n} : StrLess(n, m)
         IN  <<first>> \o SortedByName(names \ {first})

\* Whether s holds the literal text lit from position i on.
HasAt(s, i, lit) ==
    /\ i + Len(lit) - 1 <= Len(s)
    /\ \A k \in 1..Len(lit) : s[i + k - 1] = lit[k]

\* The digits of s from position i, n of them, as int() reads them.
IntAt(s, i, n) == ToInt(SubSeq(s, i, i + n - 1))

\* What a directory name yields: None, or Some of the configuration key.
Key(width, threads) == Some([width |-> width, threads |-> threads])

\* ^w(?P<width>\d+)_t(?P<threads>\d+)$
MatchWT(name) ==
    LET n1 == DigitRun(name, 2)
        j  == 2 + n1
        n2 == DigitRun(name, j + 2)
    IN  IF /\ HasAt(name, 1, <<"w">>) /\ n1 > 0
           /\ HasAt(name, j, <<"_", "t">>) /\ n2 > 0
           /\ j + 2 + n2 = Len(name) + 1
        THEN Key(IntAt(name, 2, n1), IntAt(name, j + 2, n2))
        ELSE None

\* ^t(?P<threads>\d+)_w(?P<width>\d+)(?:_|$)
MatchTW(name) ==
    LET n1 == DigitRun(name, 2)
        j  == 2 + n1
        n2 == DigitRun(name, j + 2)
        e  == j + 2 + n2
    IN  IF /\ HasAt(name, 1, <<"t">>) /\ n1 > 0
           /\ HasAt(name, j, <<"_", "w">>) /\ n2 > 0
           /\ (e = Len(name) + 1 \/ HasAt(name, e, <<"_">>))
        THEN Key(IntAt(name, j + 2, n2), IntAt(name, 2, n1))
        ELSE None

\* t(?P<threads>\d+)(?:_cpus(?P<cpus>\d+))? at the start of the name, followed by
\* "_" (or, with atEnd, by the end of the name): None, or Some of the groups
\* threads and cpus (cpus is None when the optional part took no part in the match).
MatchTCpus(name, atEnd) ==
    LET n1 == DigitRun(name, 2)
        j  == 2 + n1
        n2 == IF HasAt(name, j, <<"_", "c", "p", "u", "s">>) THEN DigitRun(name, j + 5) ELSE 0
        e  == j + 5 + n2
        After(k) == HasAt(name, k, <<"_">>) \/ (atEnd /\ k = Len(name) + 1)
    IN  IF ~(HasAt(name, 1, <<"t">>) /\ n1 > 0) THEN None
        ELSE IF n2 > 0 /\ After(e)
             THEN Some([threads |-> IntAt(name, 2, n1), cpus |-> Some(IntAt(name, j + 5, n2))])
        ELSE IF After(j)
             THEN Some([threads |-> IntAt(name, 2, n1), cpus |-> None])
        ELSE None

\* plot_performance_cortexA15.parse_dir_name: the first of DIR_PATTERNS that matches.
parse_dir_name(name) ==
    IF MatchWT(name) # None THEN MatchWT(name)
    ELSE IF MatchTW(name) # None THEN MatchTW(name)
    ELSE None

\* A faulty variant of DirKey (the cpus group never used for the thread count),
\* which property C12 must tell apart from the code.
DirKey_threads_group_only(s, name) ==
    CASE s = "A15perf" -> parse_dir_name(name)
      [] s = "A15ipc" -> MatchWT(name)
      [] s = "A7speedup" ->
            LET m == MatchTCpus(name, FALSE)
            IN  IF m = None THEN None ELSE Key(0, m[1].threads)
      [] s = "A7cycles" ->
            LET m == MatchTCpus(name, TRUE)
            IN  IF m = None THEN None ELSE Key(0, m[1].threads)
      [] s = "A7ipc" ->
            LET n1 == DigitRun(name, 2)
            IN  IF HasAt(name, 1, <<"t">>) /\ n1 > 0 /\ HasAt(name, 2 + n1, <<"_">>)
                THEN Key(0, IntAt(name, 2, n1))
                ELSE None

\* The configuration key each script recovers from a directory name (width 0
\* stands for the CortexA7 scripts, which have no width), or None.
DirKey(s, name) ==
    CASE s = "A15perf" -> parse_dir_name(name)
      [] s = "A15ipc" -> MatchWT(name)
      [] s = "A7speedup" ->
            LET m == MatchTCpus(name, FALSE)
            IN  IF m = None THEN None
                ELSE Key(0, IF m[1].cpus # None THEN m[1].cpus[1] ELSE m[1].threads)
      [] s = "A7cycles" ->
            LET m == MatchTCpus(name, TRUE)
            IN  IF m = None THEN None
                ELSE Key(0, IF m[1].cpus # None THEN m[1].cpus[1] ELSE m[1].threads)
      [] s = "A7ipc" ->
            LET n1 == DigitRun(name, 2)
            IN  IF HasAt(name, 1, <<"t">>) /\ n1 > 0 /\ HasAt(name, 2 + n1, <<"_">>)
                THEN Key(0, IntAt(name, 2, n1))
                ELSE None

(***************************************************************************)
(* STATUS.txt                                                              *)
(***************************************************************************)
\* str.strip(): leading and trailing whitespace removed.
RECURSIVE LStrip(_)
LStrip(s) == IF s # <<>> /\ s[1] \in Whitespace THEN LStrip(Tail(s)) ELSE s

RECURSIVE RStrip(_)
RStrip(s) ==
    IF s # <<>> /\ s[Len(s)] \in Whitespace THEN RStrip(SubSeq(s, 1, Len(s) - 1)) ELSE s

Strip(s) == RStrip(LStrip(s))

\* status.startswith("OK")
StartsWithOK(status) == HasAt(status, 1, <<"O", "K">>)

(***************************************************************************)
(* Points, warnings and the directory scan                                 *)
(***************************************************************************)
\* The Point dataclasses and result tuples of the five scripts, as one record;
\* a field a script does not have keeps its default.
Point(simulation, width, threads, rec, folder) ==
    [simulation |-> simulation, width |-> width, threads |-> threads,
     cycles |-> rec.cycles, sim_insts |-> rec.sim_insts,
     ipc_global |-> rec.ipc_global, ipc_max |-> rec.ipc_max, folder |-> folder,
     speedup |-> Some(<<0, 1>>), efficiency |-> Some(<<0, 1>>),
     local_speedup |-> None, local_efficiency |-> None, marginal_efficiency |-> None]

\* One warning text: the directory it names, what it says, and the text it
\* embeds (the status of "ignore (<status>)").
Warning(simulation, folder, kind, detail) ==
    [simulation |-> simulation, folder |-> folder, kind |-> kind, detail |-> detail]

\* Lexicographic order of two key tuples of the same length.
RECURSIVE TupleLess(_, _)
TupleLess(a, b) ==
    IF a = <<>> THEN FALSE
    ELSE IF a[1] # b[1] THEN a[1] < b[1]
    ELSE TupleLess(Tail(a), Tail(b))

\* The sort keys of the scripts: (p.width, p.threads) and p.threads.
SortKey(k, p) == IF k = "width_threads" THEN <<p.width, p.threads>> ELSE <<p.threads>>

\* list.sort(key=...): stable, ascending.
RECURSIVE SortByKey(_, _)
SortByKey(xs, k) ==
    IF xs = <<>> THEN <<>>
    ELSE LET rest == SortByKey(SubSeq(xs, 1, Len(xs) - 1), k)
             x    == xs[Len(xs)]
             n    == Cardinality({i \in 1..Len(rest) :
                                    ~TupleLess(SortKey(k, x), SortKey(k, rest[i]))})
         IN  SubSeq(rest, 1, n) \o <<x>> \o SubSeq(rest, n + 1, Len(rest))

\* A faulty variant of OverMaxThreads (threads >= max_threads), which property
\* C11 must tell apart from the code.
OverMaxThreads_or_equal(max_threads, threads) ==
    max_threads # None /\ threads >= max_threads[1]

\* max_threads is not None and threads > max_threads
OverMaxThreads(max_threads, threads) == max_threads # None /\ threads > max_threads[1]

\* A directory entry as the scan reads it: its name, whether it is a directory,
\* the content of its STATUS.txt and the lines of its stats.txt (None: no such
\* file; a stats.txt of size 0 has no line).
Entry(name, is_dir, status, stats) ==
    [name |-> name, is_dir |-> is_dir, status |-> status, stats |-> stats]

\* The state of one collect call: its lists points and warnings, and the
\* exception that left the call ("" while none did).
Lists(points, warnings) == [points |-> points, warnings |-> warnings, raised |-> ""]

\* A faulty variant of ReadStatus (the content not stripped), which property
\* C10 must tell apart from the code.
ReadStatus_raw(content) == content

\* status = status_path.read_text(encoding="utf-8", errors="ignore").strip()
ReadStatus(content) == Strip(content)

\* A faulty variant of TryAppendPoint (no except clause: the ValueError leaves
\* the collect call), which property C7 must tell apart from the code.
TryAppendPoint_uncaught(s, simulation, key, st, e) ==
    LET rec == ParseFile(s, e.stats[1])
    IN  IF rec.ok
        THEN [st EXCEPT !.points = Append(@, Point(simulation, key.width, key.threads, rec, e.name))]
        ELSE [st EXCEPT !.raised = "ValueError"]

\* try: <parse stats.txt>; points.append(<point>)
\* except ValueError as exc: warnings.append(<text of exc>)
TryAppendPoint(s, simulation, key, st, e) ==
    LET rec == ParseFile(s, e.stats[1])
    IN  IF rec.ok
        THEN [st EXCEPT !.points = Append(@, Point(simulation, key.width, key.threads, rec, e.name))]
        ELSE [st EXCEPT !.warnings = Append(@, Warning(simulation, e.name, rec.error, <<>>))]

\* A faulty variant of collect_points_entry (no test of the size of stats.txt:
\* an empty file goes to the parser), which property C16 must tell apart from
\* the code.
collect_points_entry_size_unchecked(max_threads, st, e) ==
    LET parsed == parse_dir_name(e.name)
    IN  IF ~e.is_dir THEN st
        ELSE IF parsed = None THEN st
        ELSE IF OverMaxThreads(max_threads, parsed[1].threads) THEN st
        ELSE IF e.status # None /\ ~StartsWithOK(ReadStatus(e.status[1]))
             THEN [st EXCEPT !.warnings =
                      Append(@, Warning("", e.name, "ignore", ReadStatus(e.status[1])))]
        ELSE IF e.stats = None
             THEN [st EXCEPT !.warnings = Append(@, Warning("", e.name, "stats.txt absent", <<>>))]
        ELSE TryAppendPoint("A15perf", "", parsed[1], st, e)

\* plot_performance_cortexA15.collect_points, the body of its loop.
collect_points_entry(max_threads, st, e) ==
    LET parsed == parse_dir_name(e.name)
    IN  IF ~e.is_dir THEN st
        ELSE IF parsed = None THEN st
        ELSE IF OverMaxThreads(max_threads, parsed[1].threads) THEN st
        ELSE IF e.status # None /\ ~StartsWithOK(ReadStatus(e.status[1]))
             THEN [st EXCEPT !.warnings =
                      Append(@, Warning("", e.name, "ignore", ReadStatus(e.status[1])))]
        ELSE IF e.stats = None
             THEN [st EXCEPT !.warnings = Append(@, Warning("", e.name, "stats.txt absent", <<>>))]
        ELSE IF e.stats[1] = <<>>
             THEN [st EXCEPT !.warnings = Append(@, Warning("", e.name, "stats.txt vide", <<>>))]
        ELSE TryAppendPoint("A15perf", "", parsed[1], st, e)

\* plot_ipc_cortexA15.collect, the body of its loop.
collect_entry(simulation, max_threads, st, e) ==
    LET m == MatchWT(e.name)
    IN  IF ~e.is_dir THEN st
        ELSE IF m = None THEN st
        ELSE IF OverMaxThreads(max_threads, m[1].threads) THEN st
        ELSE IF e.status # None /\ ~StartsWithOK(ReadStatus(e.status[1]))
             THEN [st EXCEPT !.warnings =
                      Append(@, Warning(simulation, e.name, "ignore", ReadStatus(e.status[1])))]
        ELSE IF e.stats = None
             THEN [st EXCEPT !.warnings =
                      Append(@, Warning(simulation, e.name, "stats.txt absent", <<>>))]
        ELSE IF e.stats[1] = <<>>
             THEN [st EXCEPT !.warnings =
                      Append(@, Warning(simulation, e.name, "stats.txt vide", <<>>))]
        ELSE TryAppendPoint("A15ipc", simulation, m[1], st, e)

\* A faulty variant of collect_A7_entry (a directory without stats.txt skipped
\* without a warning), which property C24 must tell apart from the code.
collect_A7_entry_absent_silent(s, st, e) ==
    LET match == DirKey(s, e.name)
    IN  IF ~e.is_dir THEN st
        ELSE IF match = None THEN st
        ELSE IF e.stats = None THEN st
        ELSE IF e.stats[1] = <<>>
             THEN [st EXCEPT !.warnings = Append(@, Warning("", e.name, "stats.txt vide", <<>>))]
        ELSE TryAppendPoint(s, "", match[1], st, e)

\* The body of the loop of plot_speedup_cortexA7.collect_points,
\* plot_cycles_cortexA7.collect_data and plot_ipc_max_cortexA7.collect, which
\* differ in DIR_RE and in the parser (both chosen by s).
collect_A7_entry(s, st, e) ==
    LET match == DirKey(s, e.name)
    IN  IF ~e.is_dir THEN st
        ELSE IF match = None THEN st
        ELSE IF e.stats = None
             THEN [st EXCEPT !.warnings = Append(@, Warning("", e.name, "stats.txt absent", <<>>))]
        ELSE IF e.stats[1] = <<>>
             THEN [st EXCEPT !.warnings = Append(@, Warning("", e.name, "stats.txt vide", <<>>))]
        ELSE TryAppendPoint(s, "", match[1], st, e)

\* The loop body of script s.
CollectEntry(s, simulation, max_threads, st, e) ==
    CASE s = "A15perf" -> collect_points_entry(max_threads, st, e)
      [] s = "A15ipc" -> collect_entry(simulation, max_threads, st, e)
      [] OTHER -> collect_A7_entry(s, st, e)

\* A faulty variant of SortPoints (the list left in scan order), which property
\* C17 must tell apart from the code.
SortPoints_scan_order(s, points) == points

\* points.sort(...) at the end of each collect.
SortPoints(s, points) ==
    IF s \in {"A15perf", "A15ipc"} THEN SortByKey(points, "width_threads")
    ELSE SortByKey(points, "threads")

(***************************************************************************)
(* Grouping and metrics                                                    *)
(***************************************************************************)
\* The sub-list of xs whose elements satisfy width = w, in order.
RECURSIVE OfWidth(_, _)
OfWidth(xs, w) ==
    IF xs = <<>> THEN <<>>
    ELSE IF Head(xs).width = w THEN <<Head(xs)>> \o OfWidth(Tail(xs), w)
    ELSE OfWidth(Tail(xs), w)

\* The keys of the dict built by grouped.setdefault(point.width, []), in
\* insertion order.
RECURSIVE WidthsInOrder(_)
WidthsInOrder(xs) ==
    IF xs = <<>> THEN <<>>
    ELSE LET before == WidthsInOrder(SubSeq(xs, 1, Len(xs) - 1))
             w      == xs[Len(xs)].width
         IN  IF \E i \in 1..Len(before) : before[i] = w THEN before ELSE Append(before, w)

\* A dict width -> list of points, as its list of items.
Group(width, values) == [width |-> width, values |-> values]

\* A faulty variant of group_by_width (the series left in input order), which
\* property C13 must tell apart from the code.
group_by_width_unsorted(points) ==
    LET ws == WidthsInOrder(points)
    IN  [i \in 1..Len(ws) |-> Group(ws[i], OfWidth(points, ws[i]))]

\* plot_ipc_cortexA15.group_by_width (and the first loop of
\* plot_performance_cortexA15.compute_metrics followed by values.sort).
group_by_width(points) ==
    LET ws == WidthsInOrder(points)
    IN  [i \in 1..Len(ws) |-> Group(ws[i], SortByKey(OfWidth(points, ws[i]), "threads"))]

\* next((p for p in values if p.threads == 1), values[0])
Baseline(values) ==
    IF \E i \in 1..Len(values) : values[i].threads = 1
    THEN values[CHOOSE i \in 1..Len(values) :
                  /\ values[i].threads = 1
                  /\ \A j \in 1..(i - 1) : values[j].threads # 1]
    ELSE values[1]

\* a - b for two floats.
RatSub(a, b) == <<a[1] * b[2] - b[1] * a[2], a[2] * b[2]>>

\* A faulty variant of SetSpeedup (the ratio inverted), which property C1
\* must tell apart from the code.
SetSpeedup_inverted(point, baseline_cycles) ==
    [point EXCEPT !.speedup = Some(<<point.cycles, baseline_cycles>>),
                  !.efficiency = Some(<<point.cycles, baseline_cycles * point.threads>>)]

\* point.speedup = baseline_cycles / point.cycles
\* point.efficiency = point.speedup / point.threads
SetSpeedup(point, baseline_cycles) ==
    [point EXCEPT !.speedup = Some(<<baseline_cycles, point.cycles>>),
                  !.efficiency = Some(<<baseline_cycles, point.cycles * point.threads>>)]

\* The two statements above raise ZeroDivisionError.
SpeedupDivByZero(point) == point.cycles = 0 \/ point.threads = 0

\* What compute_metrics returns (ok) or the exception that leaves it (~ok).
Returned(value) == [ok |-> TRUE, value |-> value, error |-> ""]

Raised(error) == [ok |-> FALSE, value |-> <<>>, error |-> error]

\* plot_performance_cortexA15.compute_metrics: the dict of the width series.
compute_metrics(points) ==
    LET grouped == group_by_width(points)
        Series(values) ==
            [i \in 1..Len(values) |-> SetSpeedup(values[i], Baseline(values).cycles)]
    IN  IF \E i \in 1..Len(points) : SpeedupDivByZero(points[i])
        THEN Raised("ZeroDivisionError")
        ELSE Returned([g \in 1..Len(grouped) |->
                          Group(grouped[g].width, Series(grouped[g].values))])

\* A faulty variant of SetLocal (local_efficiency divided by the thread delta
\* instead of the thread ratio), which property C15 must tell apart from the
\* code.
SetLocal_by_thread_delta(point, prev) ==
    LET d_threads == point.threads - prev.threads
    IN  [point EXCEPT
           !.local_speedup = Some(<<prev.cycles, point.cycles>>),
           !.local_efficiency = Some(<<prev.cycles, point.cycles * d_threads>>),
           !.marginal_efficiency =
               Some(<<RatSub(point.speedup[1], prev.speedup[1])[1],
                      RatSub(point.speedup[1], prev.speedup[1])[2] * d_threads>>)]

\* The statements of plot_speedup_cortexA7.compute_metrics for point i > 0:
\* local_speedup, local_efficiency and marginal_efficiency against prev.
SetLocal(point, prev) ==
    LET d_threads == point.threads - prev.threads
    IN  [point EXCEPT
           !.local_speedup = Some(<<prev.cycles, point.cycles>>),
           !.local_efficiency = Some(<<prev.cycles * prev.threads, point.cycles * point.threads>>),
           !.marginal_efficiency =
               Some(<<RatSub(point.speedup[1], prev.speedup[1])[1],
                      RatSub(point.speedup[1], prev.speedup[1])[2] * d_threads>>)]

\* They raise ZeroDivisionError.
LocalDivByZero(point, prev) ==
    point.cycles = 0 \/ prev.threads = 0 \/ point.threads = 0 \/ point.threads - prev.threads = 0

\* plot_speedup_cortexA7.compute_metrics (points[0] of an empty list raises).
RECURSIVE A7Series(_, _, _)
A7Series(points, baseline_cycles, i) ==
    IF i = 0 THEN <<>>
    ELSE LET before == A7Series(points, baseline_cycles, i - 1)
             p      == SetSpeedup(points[i], baseline_cycles)
         IN  IF i = 1 THEN <<p>> ELSE Append(before, SetLocal(p, before[i - 1]))

compute_metrics_A7(points) ==
    IF points = <<>> THEN Raised("IndexError")
    ELSE IF \/ \E i \in 1..Len(points) : SpeedupDivByZero(points[i])
       \/ \E i \in 2..Len(points) : LocalDivByZero(points[i], points[i - 1])
         THEN Raised("ZeroDivisionError")
    ELSE Returned(A7Series(points, Baseline(points).cycles, Len(points)))

\* The Point objects of the list points after compute_metrics(points) of
\* plot_performance_cortexA15 ran on them: the function assigns speedup and
\* efficiency on the objects it was given, one after the other in the order of
\* its two loops, until a statement divides by zero.
RECURSIVE Flatten(_)
Flatten(groups) ==
    IF groups = <<>> THEN <<>> ELSE Head(groups).values \o Flatten(Tail(groups))

\* point.speedup = ... has run, point.efficiency = ... has raised; or the
\* first of the two has raised.
SetSpeedupRaising(point, baseline_cycles) ==
    IF point.cycles = 0 THEN point
    ELSE [point EXCEPT !.speedup = Some(<<baseline_cycles, point.cycles>>)]

compute_metrics_in_place(points) ==
    LET order   == Flatten(group_by_width(points))
        failing == {i \in 1..Len(order) : SpeedupDivByZero(order[i])}
        first   == IF failing = {} THEN Len(order) + 1
                   ELSE CHOOSE i \in failing : \A j \in failing : i <= j
        After(p) ==
            LET i  == CHOOSE i \in 1..Len(order) : order[i].folder = p.folder
                bc == Baseline(SortByKey(OfWidth(points, p.width), "threads")).cycles
            IN  IF i < first THEN SetSpeedup(p, bc)
                ELSE IF i = first THEN SetSpeedupRaising(p, bc)
                ELSE p
    IN  [i \in 1..Len(points) |-> After(points[i])]

\* The same for plot_speedup_cortexA7.compute_metrics, which returns the list
\* it was given: the statements of point i run until one divides by zero.
SetLocalRaising(point, prev) ==
    IF prev.threads = 0
    THEN [point EXCEPT !.local_speedup = Some(<<prev.cycles, point.cycles>>)]
    ELSE [point EXCEPT
            !.local_speedup = Some(<<prev.cycles, point.cycles>>),
            !.local_efficiency = Some(<<prev.cycles * prev.threads, point.cycles * point.threads>>)]

compute_metrics_A7_in_place(points) ==
    LET failing == {i \in 1..Len(points) :
                      \/ SpeedupDivByZero(points[i])
                      \/ i > 1 /\ LocalDivByZero(points[i], points[i - 1])}
        first   == IF failing = {} THEN Len(points) + 1
                   ELSE CHOOSE i \in failing : \A j \in failing : i <= j
        bc      == Baseline(points).cycles
        done    == A7Series(points, bc, first - 1)
    IN  [i \in 1..Len(points) |->
           IF i < first THEN done[i]
           ELSE IF i > first THEN points[i]
           ELSE IF SpeedupDivByZero(points[i]) THEN SetSpeedupRaising(points[i], bc)
           ELSE SetLocalRaising(SetSpeedup(points[i], bc), done[i - 1])]

(***************************************************************************)
(* Bounds and the inputs the model explores                                *)
(***************************************************************************)
\* The most lines of a log file the parsers are run on.
MaxLines == 4

\* The most directory entries under the input roots of one run.
MaxDirs == 2

\* The most points of a series handed to compute_metrics.
MaxPoints == 3

\* The lines the explored log files are made of.
LogLines ==
    { Line("", <<>>, FALSE),
      Line("system.cpu0.numCycles", <<"9">>, FALSE),
      Line("system.cpu0.numCycles", <<"5">>, TRUE),
      Line("system.cpu.numCycles", <<"0">>, FALSE),
      Line("sim_insts", <<"2", "0">>, TRUE),
      Line("sim_insts", <<"3", "0">>, FALSE),
      Line("sim_insts", <<"0">>, FALSE),
      Line("sim_ticks", <<"5", "0", "0", "0", "0", "0">>, TRUE),
      Line("sim_ticks", <<"5">>, FALSE),
      Line("system.cpu_clk_domain.clock", <<"2">>, FALSE),
      Line("system.cpu_clk_domain.clock", <<"0">>, FALSE),
      Line("system.clk_domain.clock", <<"1", "0", "0", "0">>, FALSE),
      Line("system.cpu0.ipc", <<"1", ".", "5">>, FALSE) }

\* The stats.txt files the explored directories hold.
LogJunk == << Line("host_seconds", <<"3">>, FALSE) >>

LogZero ==
    << Line("system.cpu0.numCycles", <<"0">>, FALSE),
       Line("sim_insts", <<"8", "0", "0">>, FALSE),
       Line("system.cpu0.ipc", <<"1", ".", "5">>, FALSE) >>

LogGood ==
    << Line("system.cpu0.numCycles", <<"4", "0", "0">>, FALSE),
       Line("system.cpu1.numCycles", <<"1", "0", "0", "0">>, FALSE),
       Line("system.cpu0.ipc", <<"1", ".", "5">>, FALSE),
       Line("sim_insts", <<"8", "0", "0">>, FALSE) >>

LogTicks ==
    << Line("sim_ticks", <<"5", "0", "0", "0", "0", "0">>, FALSE),
       Line("system.clk_domain.clock", <<"1", "0", "0", "0">>, FALSE) >>

StatsChoices == {None, Some(<<>>), Some(LogJunk), Some(LogZero), Some(LogGood), Some(LogTicks)}

\* The STATUS.txt contents the explored directories hold (None: no such file).
StatusChoices ==
    { None,
      Some(<<"O", "K", "\n">>),
      Some(<<" ", "O", "K">>),
      Some(<<"F", "A", "I", "L", "E", "D", ":", " ", "o", "o", "m", "\n">>) }

\* The names the explored roots hold.
NamesA15 ==
    { <<"w", "2", "_", "t", "1">>, <<"w", "4", "_", "t", "1">>, <<"w", "4", "_", "t", "2">>,
      <<"t", "2", "_", "w", "4">>, <<"j", "u", "n", "k">> }

NamesA7 ==
    { <<"t", "1", "_", "a">>, <<"t", "2", "_", "a">>, <<"t", "2", "_", "b">>,
      <<"t", "1", "0", "_", "a">>, <<"t", "2", "_", "c", "p", "u", "s", "4", "_", "a">>,
      <<"t", "4">>, <<"t", "0", "_", "a">> }

NameChoices(s) == IF s \in {"A15perf", "A15ipc"} THEN NamesA15 ELSE NamesA7

\* The entries a directory named `name` may turn out to be.
EntryChoices(s, name) ==
    { Entry(name, d, status, stats) :
        d \in BOOLEAN,
        status \in (IF s \in {"A15perf", "A15ipc"} THEN StatusChoices ELSE {None}),
        stats \in StatsChoices }

\* --max-threads (CortexA15 scripts only).
MaxThreadsChoices(s) == IF s \in {"A15perf", "A15ipc"} THEN {None, Some(1)} ELSE {None}

(***************************************************************************)
(* The run of a script: main and the collect call it makes per root        *)
(***************************************************************************)
VARIABLES
    script,       \* which of the five scripts runs
    max_threads,  \* args.max_threads
    pc,           \* where main is: "collect", "scan", "main", "metrics", "output", "warn", "done"
    root,         \* the root being collected: 1, or 2 (the m128 root)
    listing,      \* sorted(root.iterdir(), key=name) of the root being scanned
    idx,          \* position in listing of the next entry
    left,         \* directory entries the roots not yet listed may still hold
    cur,          \* the entry the last loop iteration read (None before the first)
    st,           \* points and warnings of the collect call in progress
    returned,     \* what the collect calls made so far returned
    metrics,      \* None, or what compute_metrics / group_by_width returned or raised
    sinks,        \* the plot, CSV and report writers called so far
    stdout,       \* warnings printed to stdout
    stderr,       \* error and warning lines printed to stderr
    exit,         \* None, or Some of the exit status of the process
    encountered   \* history: every warning, in the order the run came upon it

runVars ==
    <<script, max_threads, pc, root, listing, idx, left, cur, st, returned,
      metrics, sinks, stdout, stderr, exit, encountered>>

\* A run of the parser of one script over one file, line by line.
VARIABLES
    pscript,      \* the script whose parser runs ("" when none does)
    pfile,        \* the lines read so far
    pacc,         \* the parser's local variables
    pres          \* None, or Some of what the parser returned or raised

parseVars == <<pscript, pfile, pacc, pres>>

\* A call of compute_metrics on one list of points.
VARIABLES
    mscript,      \* "A15perf" or "A7speedup" ("" when none)
    mpoints,      \* the list of points handed to compute_metrics
    mres          \* None, or Some of what compute_metrics returned or raised

metricVars == <<mscript, mpoints, mres>>

vars == <<runVars, parseVars, metricVars>>

TwoRoots(s) == s \in {"A15ipc", "A7ipc"}

\* The simulation argument of plot_ipc_cortexA15.collect.
Simulation(s, r) == IF s = "A15ipc" THEN (IF r = 1 THEN "m16" ELSE "m128") ELSE ""

\* The writers main calls, in order.
Sinks(s) ==
    CASE s = "A15perf" ->
            <<"plot_cycles", "plot_res_ejec_cycles", "plot_speedup", "plot_efficiency", "write_csv">>
      [] s = "A15ipc" -> <<"plot_metric ipc_max", "plot_metric ipc_global", "write_csv">>
      [] s = "A7speedup" -> <<"plot_speedup", "plot_efficiency", "write_csv", "write_report">>
      [] s = "A7cycles" -> <<"make_plot">>
      [] s = "A7ipc" -> <<"plot", "write_csv">>

\* All the elements of a list of lists.
RECURSIVE Concat(_)
Concat(xss) == IF xss = <<>> THEN <<>> ELSE Head(xss) \o Concat(Tail(xss))

AllPoints == Concat([i \in 1..Len(returned) |-> returned[i].points])

\* warnings (one root), or warnings_m16 + warnings_m128.
AllWarnings == Concat([i \in 1..Len(returned) |-> returned[i].warnings])

ParseIdle == pscript = "" /\ pfile = <<>> /\ pacc = Acc0 /\ pres = None

MetricIdle == mscript = "" /\ mpoints = <<>> /\ mres = None

RunIdle ==
    /\ script = "" /\ max_threads = None /\ pc = "idle" /\ root = 1 /\ listing = <<>>
    /\ idx = 1 /\ left = 0 /\ cur = None /\ st = Lists(<<>>, <<>>) /\ returned = <<>>
    /\ metrics = None /\ sinks = <<>> /\ stdout = <<>> /\ stderr = <<>> /\ exit = None
    /\ encountered = <<>>

Init ==
    /\ script \in Scripts
    /\ max_threads \in MaxThreadsChoices(script)
    /\ pc = "collect" /\ root = 1 /\ listing = <<>> /\ idx = 1 /\ left = MaxDirs
    /\ cur = None /\ st = Lists(<<>>, <<>>) /\ returned = <<>> /\ metrics = None
    /\ sinks = <<>> /\ stdout = <<>> /\ stderr = <<>> /\ exit = None
    /\ encountered = <<>>
    /\ ParseIdle /\ MetricIdle

\* A line printed by main: "Erreur: ...", "Avertissement: ..." or the traceback
\* of an exception nothing catches.
Printed(prefix, w) == [prefix |-> prefix, w |-> w]

PrintedWarnings(ws) == [i \in 1..Len(ws) |-> Printed("Avertissement", ws[i])]

\* After a collect call returned: main calls it on the next root or goes on.
AfterCollect ==
    IF TwoRoots(script) /\ root = 1
    THEN root' = 2 /\ pc' = "collect"
    ELSE root' = root /\ pc' = "main"

\* An exception nothing catches leaves main: traceback, exit status 1.
Uncaught(error) ==
    /\ stderr' = Append(stderr, Printed("Traceback", Warning("", <<>>, error, <<>>)))
    /\ exit' = Some(1)
    /\ pc' = "done"

\* A faulty variant of RootMissing (FileNotFoundError in every script), which
\* property C9 must tell apart from the code.
RootMissing_always_fatal ==
    /\ pc = "collect"
    /\ stderr' = Append(stderr,
            Printed("Erreur", Warning("", <<>>, "Dossier introuvable", <<>>)))
    /\ exit' = Some(1)
    /\ pc' = "done"
    /\ UNCHANGED <<returned, root, encountered>>
    /\ UNCHANGED <<script, max_threads, listing, idx, left, cur, st, metrics, sinks, stdout>>
    /\ UNCHANGED <<parseVars, metricVars>>

\* collect / collect_points / collect_data finds that its root does not exist.
\* The two-root scripts return a warning; the others raise FileNotFoundError,
\* which main catches: it prints the error and returns 1.
RootMissing ==
    /\ pc = "collect"
    /\ IF TwoRoots(script)
       THEN /\ returned' = Append(returned,
                   Lists(<<>>, <<Warning("", <<>>, "dossier absent", <<>>)>>))
            /\ encountered' = Append(encountered, Warning("", <<>>, "dossier absent", <<>>))
            /\ AfterCollect
            /\ UNCHANGED <<stderr, exit>>
       ELSE /\ stderr' = Append(stderr,
                   Printed("Erreur", Warning("", <<>>, "Dossier introuvable", <<>>)))
            /\ exit' = Some(1)
            /\ pc' = "done"
            /\ UNCHANGED <<returned, root, encountered>>
    /\ UNCHANGED <<script, max_threads, listing, idx, left, cur, st, metrics, sinks, stdout>>
    /\ UNCHANGED <<parseVars, metricVars>>

\* The root exists: the scan starts on its sorted listing.
RootListed ==
    /\ pc = "collect"
    /\ \E names \in SUBSET NameChoices(script) :
         /\ Cardinality(names) <= left
         /\ listing' = SortedByName(names)
         /\ left' = left - Cardinality(names)
    /\ idx' = 1
    /\ cur' = None
    /\ st' = Lists(<<>>, <<>>)
    /\ pc' = "scan"
    /\ UNCHANGED <<script, max_threads, root, returned, metrics, sinks, stdout, stderr,
                   exit, encountered>>
    /\ UNCHANGED <<parseVars, metricVars>>

\* One iteration of the loop over the sorted entries.  An exception the loop
\* body does not catch leaves collect and main.
ScanEntry ==
    /\ pc = "scan"
    /\ idx <= Len(listing)
    /\ \E e \in EntryChoices(script, listing[idx]) :
         LET after == CollectEntry(script, Simulation(script, root), max_threads, st, e)
         IN  /\ cur' = Some(e)
             /\ st' = after
             /\ encountered' = encountered
                    \o SubSeq(after.warnings, Len(st.warnings) + 1, Len(after.warnings))
             /\ IF after.raised = ""
                THEN UNCHANGED <<pc, stderr, exit>>
                ELSE Uncaught(after.raised)
    /\ idx' = idx + 1
    /\ UNCHANGED <<script, max_threads, root, listing, left, returned, metrics,
                   sinks, stdout>>
    /\ UNCHANGED <<parseVars, metricVars>>

\* The loop is over: points.sort(...) and return points, warnings.
EndCollect ==
    /\ pc = "scan"
    /\ idx > Len(listing)
    /\ returned' = Append(returned, Lists(SortPoints(script, st.points), st.warnings))
    /\ AfterCollect
    /\ st' = Lists(<<>>, <<>>)
    /\ listing' = <<>>
    /\ idx' = 1
    /\ cur' = None
    /\ UNCHANGED <<script, max_threads, left, metrics, sinks, stdout, stderr, exit,
                   encountered>>
    /\ UNCHANGED <<parseVars, metricVars>>

\* A faulty variant of HasPoints (warnings count as data), which property C8
\* must tell apart from the code.
HasPoints_or_warnings == AllPoints # <<>> \/ AllWarnings # <<>>

\* main's test "if not points" ("if not points_m16 and not points_m128"), negated.
HasPoints == AllPoints # <<>>

\* main: no point was collected: the error and the warnings go to stderr and
\* main returns 1.
NoPoints ==
    /\ pc = "main"
    /\ ~HasPoints
    /\ stderr' = stderr
                 \o <<Printed("Erreur", Warning("", <<>>, "aucune configuration exploitable", <<>>))>>
                 \o PrintedWarnings(AllWarnings)
    /\ exit' = Some(1)
    /\ pc' = "done"
    /\ UNCHANGED <<script, max_threads, root, listing, idx, left, cur, st, returned,
                   metrics, sinks, stdout, encountered>>
    /\ UNCHANGED <<parseVars, metricVars>>

\* main: compute_metrics(points) or group_by_width(points_*), where the script
\* has one.  A ZeroDivisionError leaves main uncaught.  compute_metrics writes
\* into the Point objects of main's list points, which main still holds.
Metrics ==
    /\ pc = "main"
    /\ HasPoints
    /\ LET res == CASE script = "A15perf" -> compute_metrics(returned[1].points)
                    [] script = "A7speedup" -> compute_metrics_A7(returned[1].points)
                    [] script = "A15ipc" ->
                          Returned(<<group_by_width(returned[1].points),
                                     group_by_width(returned[2].points)>>)
                    [] OTHER -> Returned(<<>>)
       IN  /\ metrics' = Some(res)
           /\ IF res.ok
              THEN pc' = "output" /\ UNCHANGED <<stderr, exit>>
              ELSE Uncaught(res.error)
    /\ returned' =
         CASE script = "A15perf" ->
                [returned EXCEPT ![1].points = compute_metrics_in_place(@)]
           [] script = "A7speedup" ->
                [returned EXCEPT ![1].points = compute_metrics_A7_in_place(@)]
           [] OTHER -> returned
    /\ UNCHANGED <<script, max_threads, root, listing, idx, left, cur, st,
                   sinks, stdout, encountered>>
    /\ UNCHANGED <<parseVars, metricVars>>

\* A faulty variant of Output (a writer that resets the speedup of the points
\* it has written), which property C23 must tell apart from the code.
Output_resetting_speedup ==
    /\ pc = "output"
    /\ Len(sinks) < Len(Sinks(script))
    /\ sinks' = Append(sinks, Sinks(script)[Len(sinks) + 1])
    /\ returned' =
         [r \in 1..Len(returned) |->
            [returned[r] EXCEPT !.points =
               [i \in 1..Len(@) |-> [@[i] EXCEPT !.speedup = Some(<<0, 1>>)]]]]
    /\ UNCHANGED <<script, max_threads, pc, root, listing, idx, left, cur, st,
                   metrics, stdout, stderr, exit, encountered>>
    /\ UNCHANGED <<parseVars, metricVars>>

\* main: the next plot, CSV or report writer.
Output ==
    /\ pc = "output"
    /\ Len(sinks) < Len(Sinks(script))
    /\ sinks' = Append(sinks, Sinks(script)[Len(sinks) + 1])
    /\ UNCHANGED <<script, max_threads, pc, root, listing, idx, left, cur, st, returned,
                   metrics, stdout, stderr, exit, encountered>>
    /\ UNCHANGED <<parseVars, metricVars>>

\* main: "for warning in warnings: print(...)" and return 0.
PrintWarnings ==
    /\ pc = "output"
    /\ Len(sinks) = Len(Sinks(script))
    /\ stdout' = stdout \o PrintedWarnings(AllWarnings)
    /\ exit' = Some(0)
    /\ pc' = "done"
    /\ UNCHANGED <<script, max_threads, root, listing, idx, left, cur, st, returned,
                   metrics, sinks, stderr, encountered>>
    /\ UNCHANGED <<parseVars, metricVars>>

Next ==
    \/ RootMissing
    \/ RootListed
    \/ ScanEntry
    \/ EndCollect
    \/ NoPoints
    \/ Metrics
    \/ Output
    \/ PrintWarnings

Spec == Init /\ [][Next]_vars

(***************************************************************************)
(* A parser run on its own: every file of at most MaxLines lines           *)
(***************************************************************************)
InitParse ==
    /\ pscript \in Scripts /\ pfile = <<>> /\ pacc = Acc0 /\ pres = None
    /\ RunIdle /\ MetricIdle

\* One iteration of "for line in file".
ReadLine ==
    /\ pscript # "" /\ pres = None
    /\ Len(pfile) < MaxLines
    /\ \E line \in LogLines :
         /\ pfile' = Append(pfile, line)
         /\ pacc' = ParseLine(pscript, pacc, line)
    /\ UNCHANGED <<pscript, pres, runVars, metricVars>>

\* The file is exhausted: the code after the loop returns or raises.
EndOfFile ==
    /\ pscript # "" /\ pres = None
    /\ pres' = Some(ParseEnd(pscript, pacc))
    /\ UNCHANGED <<pscript, pfile, pacc, runVars, metricVars>>

NextParse ==
    \/ ReadLine
    \/ EndOfFile

SpecParse == InitParse /\ [][NextParse]_vars

(***************************************************************************)
(* compute_metrics called on its own: every list of at most MaxPoints      *)
(* points that a collect_points call can return                            *)
(***************************************************************************)
CyclesChoices == {0, 400, 600, 1000}

ThreadsChoices == {0, 1, 2, 4}

WidthChoices(s) == IF s = "A15perf" THEN {2, 4} ELSE {0}

DigitChar(n) ==
    CASE n = 0 -> "0" [] n = 1 -> "1" [] n = 2 -> "2" [] n = 3 -> "3" [] n = 4 -> "4"

\* The directory names that yield the key (width, threads) in script s.
FolderChoices(s, width, threads) ==
    IF s = "A15perf"
    THEN { <<"w", DigitChar(width), "_", "t", DigitChar(threads)>>,
           <<"t", DigitChar(threads), "_", "w", DigitChar(width)>> }
    ELSE { <<"t", DigitChar(threads), "_", "a">>, <<"t", DigitChar(threads), "_", "b">> }

InitMetrics ==
    /\ mscript \in {"A15perf", "A7speedup"} /\ mpoints = <<>> /\ mres = None
    /\ RunIdle /\ ParseIdle

\* One more point of the list collect_points returns: the list stays sorted
\* by its sort key, stably (equal keys in the order of their names), and no
\* two points come from the same directory.
AddPoint ==
    /\ mscript # "" /\ mres = None
    /\ Len(mpoints) < MaxPoints
    /\ \E width \in WidthChoices(mscript), threads \in ThreadsChoices, cycles \in CyclesChoices :
         \E folder \in FolderChoices(mscript, width, threads) :
           LET p == Point("", width, threads, Record(cycles, 0, None, None), folder)
               k == IF mscript = "A15perf" THEN "width_threads" ELSE "threads"
           IN  /\ DirKey(mscript, folder) = Key(width, threads)
               /\ \A i \in 1..Len(mpoints) :
                    /\ ~TupleLess(SortKey(k, p), SortKey(k, mpoints[i]))
                    /\ SortKey(k, p) = SortKey(k, mpoints[i]) => StrLess(mpoints[i].folder, folder)
               /\ mpoints' = Append(mpoints, p)
    /\ UNCHANGED <<mscript, mres, runVars, parseVars>>

\* main's call of compute_metrics on a list that is not empty.
Compute ==
    /\ mscript # "" /\ mres = None
    /\ mpoints # <<>>
    /\ mres' = Some(IF mscript = "A15perf" THEN compute_metrics(mpoints)
                    ELSE compute_metrics_A7(mpoints))
    /\ UNCHANGED <<mscript, mpoints, runVars, parseVars>>

NextMetrics ==
    \/ AddPoint
    \/ Compute

SpecMetrics == InitMetrics /\ [][NextMetrics]_vars

(***************************************************************************)
(* Properties                                                              *)
(***************************************************************************)
\* The series compute_metrics works on, each with the points it was given and
\* the points it returned: one per width for CortexA15, the whole list for
\* CortexA7.
SeriesOfResult ==
    IF mscript = "A15perf"
    THEN { [given |-> OfWidth(mpoints, mres[1].value[g].width),
            got   |-> mres[1].value[g].values] : g \in 1..Len(mres[1].value) }
    ELSE { [given |-> mpoints, got |-> mres[1].value] }

\* C1: when compute_metrics returns, every width of the input has its series
\* (CortexA15) or the whole list is the series (CortexA7), and in each series
\* there is a baseline point, one with threads = 1 if the series has one and
\* the first point otherwise, such that every point keeps its identity and
\* has speedup = baseline.cycles / cycles and efficiency = speedup / threads;
\* cycles 1000, 600, 400 at threads 1, 2, 4 give speedups 1, 5/3, 5/2 and
\* efficiencies 1, 5/6, 5/8.
C1_SpeedupAndEfficiency ==
    (mres # None /\ mres[1].ok) =>
        /\ \A i \in 1..Len(mpoints) :
             \E se \in SeriesOfResult :
               \E j \in 1..Len(se.given) : se.given[j] = mpoints[i]
        /\ \A se \in SeriesOfResult :
             /\ Len(se.got) = Len(se.given)
             /\ \A i \in 1..(Len(se.given) - 1) :
                  se.given[i].threads <= se.given[i + 1].threads
             /\ \E b \in 1..Len(se.given) :
                  /\ \/ se.given[b].threads = 1
                     \/ b = 1 /\ \A i \in 1..Len(se.given) : se.given[i].threads # 1
                  /\ \A i \in 1..Len(se.given) :
                       /\ se.got[i].folder = se.given[i].folder
                       /\ se.got[i].threads = se.given[i].threads
                       /\ se.got[i].cycles = se.given[i].cycles
                       /\ se.got[i].speedup # None /\ se.got[i].efficiency # None
                       /\ se.got[i].speedup[1][2] # 0 /\ se.got[i].efficiency[1][2] # 0
                       /\ RatEq(se.got[i].speedup[1],
                                <<se.given[b].cycles, se.given[i].cycles>>)
                       /\ RatEq(se.got[i].efficiency[1],
                                <<se.got[i].speedup[1][1],
                                  se.got[i].speedup[1][2] * se.given[i].threads>>)
             /\ ( /\ [i \in 1..Len(se.given) |-> se.given[i].threads] = <<1, 2, 4>>
                  /\ [i \in 1..Len(se.given) |-> se.given[i].cycles] = <<1000, 600, 400>> )
                => /\ RatEq(se.got[1].speedup[1], <<1, 1>>)
                   /\ RatEq(se.got[2].speedup[1], <<5, 3>>)
                   /\ RatEq(se.got[3].speedup[1], <<5, 2>>)
                   /\ RatEq(se.got[1].efficiency[1], <<1, 1>>)
                   /\ RatEq(se.got[2].efficiency[1], <<5, 6>>)
                   /\ RatEq(se.got[3].efficiency[1], <<5, 8>>)

\* compute_metrics has returned for cycles 1000, 600, 400 at threads 1, 2, 4.
C1_Witness ==
    /\ mres # None /\ mres[1].ok
    /\ [i \in 1..Len(mpoints) |-> mpoints[i].threads] = <<1, 2, 4>>
    /\ [i \in 1..Len(mpoints) |-> mpoints[i].cycles] = <<1000, 600, 400>>
    /\ \A i \in 1..Len(mpoints) : mpoints[i].width = mpoints[1].width

\* The values of the numCycles lines of the file pfile, in order, and the
\* value of its last sim_insts line (0 when it has none, as before the loop).
CycleCountsOfFile ==
    LET hits == SelectSeq(pfile, LAMBDA l : NUM_CYCLES_RE(l) # None)
    IN  [i \in 1..Len(hits) |-> NUM_CYCLES_RE(hits[i])[1]]

LastSimInstsOfFile ==
    LET hits == SelectSeq(pfile, LAMBDA l : SIM_INS_RE(l) # None)
    IN  IF hits = <<>> THEN 0 ELSE SIM_INS_RE(hits[Len(hits)])[1]

\* C2: every record parse_stats or parse_config returns has ipc_global = the
\* value of the last sim_insts line / the maximum over all the numCycles
\* lines of the file, a repeated line for the same core included.
C2_IpcGlobalOverAllCycleLines ==
    (pscript \in {"A15ipc", "A7ipc"} /\ pres # None /\ pres[1].ok) =>
        /\ CycleCountsOfFile # <<>>
        /\ pres[1].ipc_global # None
        /\ RatEq(pres[1].ipc_global[1], <<LastSimInstsOfFile, MaxOf(CycleCountsOfFile)>>)

\* The first sim_ticks, core-local clock and system-wide clock values of the
\* file pfile (None when no line gives one).
FirstTicksOfFile ==
    LET hits == SelectSeq(pfile, LAMBDA l : SIM_TICKS_RE(l) # None)
    IN  IF hits = <<>> THEN None ELSE SIM_TICKS_RE(hits[1])

FirstCpuClockOfFile ==
    LET hits == SelectSeq(pfile, LAMBDA l : CPU_CLOCK_RE(l) # None)
    IN  IF hits = <<>> THEN None ELSE CPU_CLOCK_RE(hits[1])

FirstSysClockOfFile ==
    LET hits == SelectSeq(pfile, LAMBDA l : SYS_CLOCK_RE(l) # None)
    IN  IF hits = <<>> THEN None ELSE SYS_CLOCK_RE(hits[1])

\* The clock period the fallback uses: the core-local one if the file has
\* one, else the system-wide one.
PeriodOfFile ==
    IF FirstCpuClockOfFile # None THEN FirstCpuClockOfFile ELSE FirstSysClockOfFile

\* c is ticks / period rounded to the nearest integer, a tie going to the
\* even one (Python's round).
IsRounded(c, ticks, period) ==
    LET diff == IF c * period >= ticks THEN c * period - ticks ELSE ticks - c * period
    IN  /\ 2 * diff <= period
        /\ 2 * diff = period => c % 2 = 0

\* C3: parse_cycles (plot_performance_cortexA15, plot_cycles_cortexA7)
\* returns the maximum of the numCycles lines whenever the file has one,
\* whatever else it holds; with none, and a sim_ticks line and a positive
\* period, it returns round(sim_ticks / period), the period being the
\* core-local clock's if the file has one and the system-wide clock's
\* otherwise; a record returned without a numCycles line is always derived
\* that way; sim_ticks 500000 with period 1000 gives 500.
C3_DirectCountsThenTicksFallback ==
    (pscript \in {"A15perf", "A7cycles"} /\ pres # None) =>
        /\ CycleCountsOfFile # <<>> =>
             pres[1].ok /\ pres[1].cycles = MaxOf(CycleCountsOfFile)
        /\ ( /\ CycleCountsOfFile = <<>>
             /\ FirstTicksOfFile # None /\ PeriodOfFile # None /\ PeriodOfFile[1] > 0 )
           => /\ pres[1].ok
              /\ IsRounded(pres[1].cycles, FirstTicksOfFile[1], PeriodOfFile[1])
        /\ (CycleCountsOfFile = <<>> /\ pres[1].ok) =>
             FirstTicksOfFile # None /\ PeriodOfFile # None /\ PeriodOfFile[1] > 0
        /\ ( /\ CycleCountsOfFile = <<>> /\ FirstTicksOfFile = Some(500000)
             /\ PeriodOfFile = Some(1000) )
           => pres[1].ok /\ pres[1].cycles = 500

\* parse_cycles has derived the count from sim_ticks on a file that holds both
\* clock periods, with different values, and no numCycles line.
C3_Witness ==
    /\ pscript = "A15perf" /\ pres # None /\ pres[1].ok
    /\ CycleCountsOfFile = <<>>
    /\ FirstCpuClockOfFile # None /\ FirstSysClockOfFile # None
    /\ FirstCpuClockOfFile # FirstSysClockOfFile
    /\ FirstSysClockOfFile[1] > 0

\* No cycle count can be established from the file pfile: it has no numCycles
\* line, and not both a sim_ticks line and a positive clock period.
NoCycleCountInFile ==
    /\ CycleCountsOfFile = <<>>
    /\ ~(FirstTicksOfFile # None /\ PeriodOfFile # None /\ PeriodOfFile[1] > 0)

\* What the loop body of the collector of pscript does with a directory whose
\* stats.txt is the file pfile.
CollectedFromFile ==
    LET name == IF pscript \in {"A15perf", "A15ipc"}
                THEN <<"w", "2", "_", "t", "1">> ELSE <<"t", "1", "_", "a">>
    IN  CollectEntry(pscript, "m16", None, Lists(<<>>, <<>>),
                     Entry(name, TRUE, None, Some(pfile)))

\* C4: a parser raises its extraction error, and the directory yields no
\* point, when no cycle count can be established from the numCycles lines or
\* from sim_ticks and a clock period, and, for parse_stats and parse_config,
\* also when the file has no sim_insts line or its last one is <= 0.
C4_ExtractionFails ==
    ( /\ pres # None
      /\ \/ NoCycleCountInFile
         \/ pscript \in {"A15ipc", "A7ipc"} /\ LastSimInstsOfFile <= 0 )
    => /\ ~pres[1].ok
       /\ pres[1].error # ""
       /\ CollectedFromFile.points = <<>>
       /\ CollectedFromFile.raised = ""

\* parse_stats has raised on a file that has a positive numCycles line and an
\* IPC line but no positive sim_insts.
C4_Witness ==
    /\ pscript = "A15ipc" /\ pres # None /\ ~pres[1].ok
    /\ CycleCountsOfFile # <<>> /\ MaxOf(CycleCountsOfFile) > 0
    /\ \E i \in 1..Len(pfile) : IPC_RE(pfile[i]) # None
    /\ LastSimInstsOfFile = 0

\* The points the collect calls of the run have appended or returned so far.
CollectedPoints == st.points \o AllPoints

\* C5: every point a collect / collect_points / collect_data call holds or
\* returns has a cycle count > 0, and sim_insts > 0 in the two IPC scripts.
C5_CollectedCyclesPositive ==
    \A i \in 1..Len(CollectedPoints) :
        /\ CollectedPoints[i].cycles > 0
        /\ script \in {"A15ipc", "A7ipc"} => CollectedPoints[i].sim_insts > 0

\* A metric of compute_metrics divides by zero on the list mpoints: a point
\* has cycles 0 or threads 0, or (CortexA7, thread delta) two adjacent points
\* have the same thread count.
DividesByZero ==
    \/ \E i \in 1..Len(mpoints) : mpoints[i].cycles = 0 \/ mpoints[i].threads = 0
    \/ /\ mscript = "A7speedup"
       /\ \E i \in 2..Len(mpoints) : mpoints[i].threads = mpoints[i - 1].threads

\* C6: compute_metrics, called on a list on which a metric divides by zero,
\* fails with the dedicated MetricError.
C6_DivisionByZeroIsMetricError ==
    (mres # None /\ DividesByZero) =>
        /\ ~mres[1].ok
        /\ mres[1].error = "MetricError"

\* The entry the last loop iteration read reached the parser of the script,
\* and the parser raised its extraction error.
ExtractionFailedOnCur ==
    /\ cur # None
    /\ cur[1].is_dir
    /\ DirKey(script, cur[1].name) # None
    /\ ~OverMaxThreads(max_threads, DirKey(script, cur[1].name)[1].threads)
    /\ cur[1].status = None \/ StartsWithOK(Strip(cur[1].status[1]))
    /\ cur[1].stats # None /\ cur[1].stats[1] # <<>>
    /\ ~ParseFile(script, cur[1].stats[1]).ok

\* The number of collect calls main makes.
RootCount == IF TwoRoots(script) THEN 2 ELSE 1

\* The warnings main has printed so far, on either stream, in order.
SurfacedWarnings ==
    LET lines == SelectSeq(stderr \o stdout, LAMBDA l : l.prefix = "Avertissement")
    IN  [i \in 1..Len(lines) |-> lines[i].w]

\* C7: an extraction failure on one directory does not abort the sweep: the
\* loop goes on (no exception, no exit status, the scan still at its place in
\* the listing) and the failure is the last warning of the list, naming the
\* directory; a run ends only with every root collected, unless a single-root
\* script found its root missing or a metric raised after the collection; and
\* main prints warnings only once every collect call has returned and, on the
\* path with output, every writer has been called, and then prints all of
\* them in the order the run came upon them.
C7_FailuresBecomeWarnings ==
    /\ (pc = "scan" /\ cur # None) => cur[1].name = listing[idx - 1]
    /\ ExtractionFailedOnCur =>
         /\ pc = "scan" /\ exit = None /\ st.raised = ""
         /\ st.warnings # <<>>
         /\ st.warnings[Len(st.warnings)].folder = cur[1].name
         /\ st.warnings[Len(st.warnings)].kind = ParseFile(script, cur[1].stats[1]).error
         /\ encountered # <<>>
         /\ encountered[Len(encountered)] = st.warnings[Len(st.warnings)]
    /\ pc = "done" =>
         \/ Len(returned) = RootCount
         \/ /\ ~TwoRoots(script) /\ returned = <<>> /\ listing = <<>> /\ cur = None
            /\ stderr = <<Printed("Erreur", Warning("", <<>>, "Dossier introuvable", <<>>))>>
    /\ SurfacedWarnings # <<>> =>
         /\ pc = "done"
         /\ Len(returned) = RootCount
         /\ SurfacedWarnings = encountered
         /\ exit = Some(0) => sinks = Sinks(script) /\ stderr = <<>>
         /\ exit # Some(0) => sinks = <<>> /\ stdout = <<>>
    /\ (pc = "done" /\ exit = Some(0)) => SurfacedWarnings = encountered
    /\ (pc = "done" /\ Len(returned) = RootCount /\ AllPoints = <<>>)
         => SurfacedWarnings = encountered

\* A run ended with exit status 0 in which the first directory's log failed
\* to parse, a later directory of the same root gave a point, and the failure
\* was printed as a warning.
C7_Witness ==
    /\ pc = "done" /\ exit = Some(0)
    /\ Len(returned) = 1 /\ Len(returned[1].points) = 1 /\ Len(encountered) = 1
    /\ encountered[1].kind \notin {"ignore", "stats.txt absent", "stats.txt vide", "dossier absent"}
    /\ StrLess(encountered[1].folder, returned[1].points[1].folder)
    /\ stdout = PrintedWarnings(encountered)

\* C8: a run that collected no point over all its roots calls no plot, CSV
\* or report writer and ends with a non-zero exit status; exit status 0 is
\* returned only with at least one point collected and after every collect
\* call returned.
C8_NoPointsIsFatal ==
    /\ sinks # <<>> => AllPoints # <<>> /\ Len(returned) = RootCount
    /\ exit = Some(0) => AllPoints # <<>> /\ Len(returned) = RootCount /\ pc = "done"
    /\ pc = "output" => AllPoints # <<>>
    /\ (AllPoints = <<>> /\ pc = "done") =>
         /\ sinks = <<>>
         /\ exit # None /\ exit # Some(0)
         /\ stderr # <<>> /\ stderr[1].prefix = "Erreur"
    /\ pc = "done" <=> exit # None

\* A run in which every root was scanned, directories were found and skipped
\* with warnings, no point was collected, and main returned 1.
C8_Witness ==
    /\ pc = "done" /\ exit = Some(1)
    /\ Len(returned) = RootCount /\ AllPoints = <<>> /\ AllWarnings # <<>>
    /\ sinks = <<>>
    /\ stderr[1] = Printed("Erreur", Warning("", <<>>, "aucune configuration exploitable", <<>>))

\* A root of the run was found missing: collect recorded "dossier absent" or
\* main printed "Dossier introuvable".
RootWasMissing ==
    \/ \E i \in 1..Len(encountered) : encountered[i].kind = "dossier absent"
    \/ \E i \in 1..Len(stderr) : stderr[i].w.kind = "Dossier introuvable"

\* C9 as stated: in every script, a missing root makes the run end with a
\* non-zero exit status and without any plot or CSV written.
C9_MissingRootIsFatal ==
    RootWasMissing => sinks = <<>> /\ exit # Some(0)

\* C9, amended: in the single-root scripts a missing root ends the run at
\* once: the error is printed, the exit status is 1, nothing is collected or
\* written.  In the two-root scripts it is a warning of a collect call that
\* returns no point: no error is printed for it, the other root is still
\* collected, and the run ends with exit status 0 and its output exactly when
\* some root gave a point.
C9_MissingRootFatalInSingleRootScripts ==
    /\ (~TwoRoots(script) /\ RootWasMissing) =>
         /\ pc = "done" /\ exit = Some(1)
         /\ sinks = <<>> /\ returned = <<>> /\ encountered = <<>> /\ stdout = <<>>
         /\ stderr = <<Printed("Erreur", Warning("", <<>>, "Dossier introuvable", <<>>))>>
    /\ (TwoRoots(script) /\ RootWasMissing) =>
         /\ \A i \in 1..Len(stderr) : stderr[i].w.kind # "Dossier introuvable"
         /\ \E i \in 1..Len(returned) :
              returned[i] = Lists(<<>>, <<Warning("", <<>>, "dossier absent", <<>>)>>)
         /\ pc = "done" =>
              /\ Len(returned) = 2
              /\ AllPoints # <<>> => exit = Some(0) /\ sinks = Sinks(script)
              /\ AllPoints = <<>> => exit = Some(1) /\ sinks = <<>>

\* A run of a two-root script whose first root was missing and whose second
\* root gave a point: the output was written and main returned 0.
C9_Witness ==
    /\ TwoRoots(script) /\ pc = "done" /\ exit = Some(0)
    /\ Len(returned) = 2
    /\ returned[1] = Lists(<<>>, <<Warning("", <<>>, "dossier absent", <<>>)>>)
    /\ returned[2].points # <<>>
    /\ sinks = Sinks(script)

\* The last loop iteration of a CortexA15 collect read a directory whose name
\* matches and whose thread count --max-threads lets through.
MatchedOnCur ==
    /\ script \in {"A15perf", "A15ipc"}
    /\ pc = "scan" /\ cur # None
    /\ cur[1].is_dir
    /\ DirKey(script, cur[1].name) # None
    /\ ~OverMaxThreads(max_threads, DirKey(script, cur[1].name)[1].threads)

\* The text begins with the two characters OK.
BeginsWithOK(text) == Len(text) >= 2 /\ text[1] = "O" /\ text[2] = "K"

\* The warnings and the points of the collect call in progress that come from
\* the directory the last iteration read.
WarningsOnCur == SelectSeq(st.warnings, LAMBDA w : w.folder = cur[1].name)

PointsOnCur == SelectSeq(st.points, LAMBDA q : q.folder = cur[1].name)

\* C10 as stated: a matched directory whose STATUS.txt content does not begin
\* with OK gives no point and exactly one warning, which carries the content
\* of the marker (surrounding whitespace aside); a directory without
\* STATUS.txt, or with one that begins with OK, gets no such warning.
C10_StatusNotOKExcluded ==
    MatchedOnCur =>
        /\ (cur[1].status # None /\ ~BeginsWithOK(cur[1].status[1])) =>
             /\ PointsOnCur = <<>>
             /\ Len(WarningsOnCur) = 1
             /\ WarningsOnCur[1].kind = "ignore"
             /\ Strip(WarningsOnCur[1].detail) = Strip(cur[1].status[1])
        /\ (cur[1].status = None \/ BeginsWithOK(cur[1].status[1])) =>
             \A i \in 1..Len(WarningsOnCur) : WarningsOnCur[i].kind # "ignore"

\* C10, amended: the test is made on the content stripped of its leading and
\* trailing whitespace.  A matched directory whose stripped STATUS.txt content
\* does not begin with OK gives no point, its stats.txt is not parsed, and
\* exactly one warning is recorded, which carries the stripped content; a
\* directory without STATUS.txt, or whose stripped content begins with OK, is
\* not excluded: what it gives depends on its stats.txt alone.
C10_StrippedStatusNotOKExcluded ==
    MatchedOnCur =>
        /\ (cur[1].status # None /\ ~BeginsWithOK(Strip(cur[1].status[1]))) =>
             /\ PointsOnCur = <<>>
             /\ Len(WarningsOnCur) = 1
             /\ WarningsOnCur[1].kind = "ignore"
             /\ WarningsOnCur[1].detail = Strip(cur[1].status[1])
             /\ st.raised = ""
        /\ (cur[1].status = None \/ BeginsWithOK(Strip(cur[1].status[1]))) =>
             /\ \A i \in 1..Len(WarningsOnCur) : WarningsOnCur[i].kind # "ignore"
             /\ (cur[1].stats # None /\ cur[1].stats[1] # <<>>
                 /\ ParseFile(script, cur[1].stats[1]).ok) => Len(PointsOnCur) = 1

\* A directory with a stats.txt that parses and a STATUS.txt "FAILED: oom" was
\* read: it gave the warning and no point.
C10_Witness ==
    /\ MatchedOnCur
    /\ cur[1].status = Some(<<"F", "A", "I", "L", "E", "D", ":", " ", "o", "o", "m", "\n">>)
    /\ cur[1].stats = Some(LogGood)
    /\ PointsOnCur = <<>>
    /\ Len(WarningsOnCur) = 1
    /\ WarningsOnCur[1].detail = <<"F", "A", "I", "L", "E", "D", ":", " ", "o", "o", "m">>

\* The last loop iteration of a CortexA15 collect read a directory whose name
\* matches one of the grammars of the script.
NamedOnCur ==
    /\ script \in {"A15perf", "A15ipc"}
    /\ pc = "scan" /\ cur # None
    /\ cur[1].is_dir
    /\ DirKey(script, cur[1].name) # None

\* C11: with max_threads set, a matched directory whose thread count exceeds
\* it gives neither a point nor a warning, whatever its STATUS.txt and
\* stats.txt hold; a directory whose thread count does not exceed it, and any
\* directory when max_threads is None, is not dropped that way: it gives
\* exactly one point or one warning.
C11_MaxThreadsFilterIsSilent ==
    NamedOnCur =>
        LET threads == DirKey(script, cur[1].name)[1].threads
        IN  /\ (max_threads # None /\ threads > max_threads[1]) =>
                 PointsOnCur = <<>> /\ WarningsOnCur = <<>>
            /\ (max_threads = None \/ threads <= max_threads[1]) =>
                 Len(PointsOnCur) + Len(WarningsOnCur) = 1

\* With max_threads = 1, a directory of 2 threads with a failed STATUS.txt and
\* a stats.txt that parses was read: no point, no warning.
C11_Witness ==
    /\ NamedOnCur
    /\ max_threads = Some(1)
    /\ DirKey(script, cur[1].name)[1].threads = 2
    /\ cur[1].status # None /\ ~BeginsWithOK(Strip(cur[1].status[1]))
    /\ cur[1].stats = Some(LogGood)
    /\ PointsOnCur = <<>> /\ WarningsOnCur = <<>>

\* The integer written in the name right after the first occurrence of the
\* letter c.
IntAfter(name, c) ==
    LET i == CHOOSE k \in 1..Len(name) : name[k] = c /\ \A j \in 1..(k - 1) : name[j] # c
    IN  ToInt(SubSeq(name, i + 1, i + DigitRun(name, i + 1)))

\* The name is t<threads>_cpus<n> followed by "_" (or, where the grammar of
\* the script allows it, by nothing).
HasCpusPart(name, atEnd) ==
    LET j == 2 + DigitRun(name, 2)
        e == j + 5 + DigitRun(name, j + 5)
    IN  /\ name[1] = "t" /\ j > 2
        /\ HasAt(name, j, <<"_", "c", "p", "u", "s">>) /\ e > j + 5
        /\ (HasAt(name, e, <<"_">>) \/ (atEnd /\ e = Len(name) + 1))

\* The integer written after "_cpus" in such a name.
CpusOf(name) ==
    LET j == 2 + DigitRun(name, 2)
    IN  ToInt(SubSeq(name, j + 5, j + 4 + DigitRun(name, j + 5)))

\* What C12 says of the entry the last loop iteration read, the thread count
\* of a matched name being threadsOf(name): an entry that is no directory or
\* whose name matches no grammar of the script leaves points and warnings
\* alone; a matched directory has the key (integer after w, threadsOf), and
\* so has the point collected from it.
KeyOnCurIs(threadsOf(_)) ==
    (pc = "scan" /\ cur # None) =>
        LET name == cur[1].name
            key  == DirKey(script, name)
        IN  /\ (~cur[1].is_dir \/ key = None) =>
                 PointsOnCur = <<>> /\ WarningsOnCur = <<>>
            /\ (cur[1].is_dir /\ key # None) =>
                 /\ key[1].threads = threadsOf(name)
                 /\ script \in {"A15perf", "A15ipc"} => key[1].width = IntAfter(name, "w")
                 /\ \A i \in 1..Len(PointsOnCur) :
                      /\ PointsOnCur[i].threads = threadsOf(name)
                      /\ PointsOnCur[i].width = key[1].width

\* C12 as stated: the thread count of a matched directory is the integer
\* written after t in its name, in every script and also for names of the
\* form t<threads>_cpus<n>...; unmatched names and non-directories are
\* skipped without point or warning.
ThreadsAfterT(name) == IntAfter(name, "t")

C12_KeyIsWidthAndThreadsOfName == KeyOnCurIs(ThreadsAfterT)

\* C12, amended: as stated, except that plot_speedup_cortexA7 and
\* plot_cycles_cortexA7 take <n> as the thread count of a directory named
\* t<threads>_cpus<n>...; plot_ipc_max_cortexA7, whose grammar has no cpus
\* part, takes <threads>.
ThreadsOrCpus(name) ==
    IF script \in {"A7speedup", "A7cycles"} /\ HasCpusPart(name, script = "A7cycles")
    THEN CpusOf(name)
    ELSE IntAfter(name, "t")

C12_KeyIsWidthAndThreadsOrCpusOfName == KeyOnCurIs(ThreadsOrCpus)

\* plot_speedup_cortexA7 collected a point from the directory t2_cpus4_a: its
\* thread count is 4.
C12_Witness ==
    /\ script = "A7speedup" /\ pc = "scan" /\ cur # None
    /\ cur[1].name = <<"t", "2", "_", "c", "p", "u", "s", "4", "_", "a">>
    /\ Len(PointsOnCur) = 1
    /\ PointsOnCur[1].threads = 4

(***************************************************************************)
(* The grouping and metric functions called on their own, on lists of at   *)
(* most MaxUnordered points in any order                                   *)
(***************************************************************************)
\* The most points of a list in arbitrary order.
MaxUnordered == 3

UnorderedCycles == {400, 1000}

UnorderedThreads == {1, 2, 4}

InitGroup ==
    /\ mscript \in {"A15perf", "A15ipc", "A7speedup"} /\ mpoints = <<>> /\ mres = None
    /\ RunIdle /\ ParseIdle

\* One more point, anywhere in the order; no two points come from the same
\* directory.
AddAnyPoint ==
    /\ mscript # "" /\ mres = None
    /\ Len(mpoints) < MaxUnordered
    /\ \E width \in WidthChoices(IF mscript = "A7speedup" THEN mscript ELSE "A15perf"),
          threads \in UnorderedThreads, cycles \in UnorderedCycles :
         \E folder \in FolderChoices(IF mscript = "A7speedup" THEN mscript ELSE "A15perf",
                                     width, threads) :
           /\ DirKey(mscript, folder) = Key(width, threads)
           /\ \A i \in 1..Len(mpoints) : mpoints[i].folder # folder
           /\ mpoints' = Append(mpoints,
                  Point("", width, threads, Record(cycles, 0, None, None), folder))
    /\ UNCHANGED <<mscript, mres, runVars, parseVars>>

\* What each script does with a list of points: compute_metrics
\* (plot_performance_cortexA15), group_by_width (plot_ipc_cortexA15), or the
\* sort that ends collect_points followed by compute_metrics
\* (plot_speedup_cortexA7).
GroupAndCompute(s, points) ==
    CASE s = "A15perf" -> compute_metrics(points)
      [] s = "A15ipc" -> Returned(group_by_width(points))
      [] s = "A7speedup" -> compute_metrics_A7(SortPoints(s, points))

ComputeUnordered ==
    /\ mscript # "" /\ mres = None
    /\ mpoints # <<>>
    /\ mres' = Some(GroupAndCompute(mscript, mpoints))
    /\ UNCHANGED <<mscript, mpoints, runVars, parseVars>>

NextGroup ==
    \/ AddAnyPoint
    \/ ComputeUnordered

SpecGroup == InitGroup /\ [][NextGroup]_vars

\* The position in the list mpoints of the point that comes from folder f.
InputIndex(f) == CHOOSE i \in 1..Len(mpoints) : mpoints[i].folder = f

\* The series of the result are the width groups of the list mpoints: one per
\* distinct width, holding exactly the points of that width, by ascending
\* thread count.
GroupsPartitionInput ==
    LET g == mres[1].value
    IN  /\ {g[i].width : i \in 1..Len(g)} = {mpoints[i].width : i \in 1..Len(mpoints)}
        /\ \A i, j \in 1..Len(g) : g[i].width = g[j].width => i = j
        /\ \A i \in 1..Len(g) :
             LET values == g[i].values
             IN  /\ {values[k].folder : k \in 1..Len(values)}
                      = {mpoints[k].folder : k \in {n \in 1..Len(mpoints) :
                                                       mpoints[n].width = g[i].width}}
                 /\ \A k, l \in 1..Len(values) : values[k].folder = values[l].folder => k = l
                 /\ \A k \in 1..Len(values) :
                      /\ values[k].width = g[i].width
                      /\ values[k].threads = mpoints[InputIndex(values[k].folder)].threads
                      /\ values[k].cycles = mpoints[InputIndex(values[k].folder)].cycles
                 /\ \A k \in 1..(Len(values) - 1) : values[k].threads <= values[k + 1].threads

\* C13 as stated: for points in any order, the result of group_by_width and of
\* the grouping of compute_metrics is the partition of the input by width,
\* each series by ascending threads, and the groups come in ascending width
\* order.
C13_GroupsAscendingByWidth ==
    (mscript \in {"A15perf", "A15ipc"} /\ mres # None /\ mres[1].ok) =>
        /\ GroupsPartitionInput
        /\ \A i \in 1..(Len(mres[1].value) - 1) :
             mres[1].value[i].width < mres[1].value[i + 1].width

\* C13, amended: the groups come in the order in which their widths first
\* occur in the input (a dict in insertion order), points of equal thread
\* count keep their input order, and the groups are in ascending width order
\* when the input is sorted by width, as the collect calls return it.
C13_GroupsInFirstSeenOrder ==
    (mscript \in {"A15perf", "A15ipc"} /\ mres # None /\ mres[1].ok) =>
        LET g == mres[1].value
            FirstSeen(w) == CHOOSE i \in 1..Len(mpoints) :
                              /\ mpoints[i].width = w
                              /\ \A j \in 1..(i - 1) : mpoints[j].width # w
        IN  /\ GroupsPartitionInput
            /\ \A i \in 1..(Len(g) - 1) : FirstSeen(g[i].width) < FirstSeen(g[i + 1].width)
            /\ \A i \in 1..Len(g) : \A k \in 1..(Len(g[i].values) - 1) :
                 g[i].values[k].threads = g[i].values[k + 1].threads =>
                   InputIndex(g[i].values[k].folder) < InputIndex(g[i].values[k + 1].folder)
            /\ (\A i \in 1..(Len(mpoints) - 1) : mpoints[i].width <= mpoints[i + 1].width) =>
                 \A i \in 1..(Len(g) - 1) : g[i].width < g[i + 1].width

\* The grouping was applied to a list that has width 4 before width 2 and, in
\* one width, more threads before fewer: the groups are 4 then 2.
C13_Witness ==
    /\ mscript \in {"A15perf", "A15ipc"} /\ mres # None /\ mres[1].ok
    /\ Len(mpoints) = 3
    /\ mpoints[1].width = 4 /\ mpoints[2].width = 2 /\ mpoints[3].width = 4
    /\ mpoints[1].threads > mpoints[3].threads
    /\ Len(mres[1].value) = 2
    /\ mres[1].value[1].width = 4 /\ mres[1].value[2].width = 2
    /\ mres[1].value[1].values[1].folder = mpoints[3].folder

\* The lists that are the list mpoints in another order.
Reorderings ==
    LET n == Len(mpoints)
    IN  { [i \in 1..n |-> mpoints[f[i]]] :
            f \in {h \in [1..n -> 1..n] : \A i, j \in 1..n : h[i] = h[j] => i = j} }

\* What a result says of each point: the directory it comes from, its speedup
\* and its efficiency (nothing when the call raised).
MetricsByFolder(res) ==
    LET flat == IF ~res.ok THEN <<>>
                ELSE IF mscript = "A7speedup" THEN res.value
                ELSE Concat([g \in 1..Len(res.value) |-> res.value[g].values])
    IN  { [folder |-> flat[i].folder, speedup |-> flat[i].speedup,
           efficiency |-> flat[i].efficiency] : i \in 1..Len(flat) }

\* The baseline point of each series of a result, by the directory it comes
\* from.
BaselinesOf(res) ==
    IF ~res.ok THEN {}
    ELSE IF mscript = "A7speedup" THEN {Baseline(res.value).folder}
    ELSE {Baseline(res.value[g].values).folder : g \in 1..Len(res.value)}

\* C14: grouping, sorting and computing the metrics on any reordering of a
\* list of points chooses the same baseline point in each series and gives
\* every point the same speedup and efficiency.
C14_MetricsInvariantUnderPermutation ==
    (mscript \in {"A15perf", "A7speedup"} /\ mres # None) =>
        \A q \in Reorderings :
            LET other == GroupAndCompute(mscript, q)
            IN  /\ other.ok = mres[1].ok
                /\ MetricsByFolder(other) = MetricsByFolder(mres[1])
                /\ BaselinesOf(other) = BaselinesOf(mres[1])

\* A quotient n / d in lowest terms with a positive denominator, and equality
\* of two quotients through it.
RECURSIVE Gcd(_, _)
Gcd(a, b) == IF b = 0 THEN a ELSE Gcd(b, a % b)

Abs(n) == IF n < 0 THEN 0 - n ELSE n

LowestTerms(q) ==
    LET g == Gcd(Abs(q[1]), Abs(q[2]))
        n == q[1] \div g
        d == q[2] \div g
    IN  IF d < 0 THEN <<0 - n, 0 - d>> ELSE <<n, d>>

SameQuotient(a, b) == LowestTerms(a) = LowestTerms(b)

\* C15: when the CortexA7 compute_metrics returns, the first point of the
\* series has local_speedup, local_efficiency and marginal_efficiency None,
\* and every later point i has local_speedup = cycles[i-1] / cycles[i],
\* local_efficiency = local_speedup / (threads[i] / threads[i-1]) and
\* marginal_efficiency = (speedup[i] - speedup[i-1]) / (threads[i] -
\* threads[i-1]), the point i-1 being the one just before it in thread order.
C15_LocalMetricsAgainstPrevious ==
    (mscript = "A7speedup" /\ mres # None /\ mres[1].ok /\ mres[1].value # <<>>) =>
        LET out == mres[1].value
        IN  /\ Len(out) = Len(mpoints)
            /\ \A i \in 1..(Len(mpoints) - 1) : mpoints[i].threads < mpoints[i + 1].threads
            /\ out[1].local_speedup = None
            /\ out[1].local_efficiency = None
            /\ out[1].marginal_efficiency = None
            /\ \A i \in 2..Len(out) :
                 LET c  == mpoints[i].cycles
                     cp == mpoints[i - 1].cycles
                     t  == mpoints[i].threads
                     tp == mpoints[i - 1].threads
                     s  == out[i].speedup[1]
                     sp == out[i - 1].speedup[1]
                     ls == out[i].local_speedup
                     le == out[i].local_efficiency
                     me == out[i].marginal_efficiency
                 IN  /\ out[i].folder = mpoints[i].folder
                     /\ ls # None /\ le # None /\ me # None
                     /\ ls[1][2] # 0 /\ le[1][2] # 0 /\ me[1][2] # 0
                     /\ SameQuotient(ls[1], <<cp, c>>)
                     /\ SameQuotient(le[1], <<LowestTerms(ls[1])[1] * tp,
                                              LowestTerms(ls[1])[2] * t>>)
                     /\ SameQuotient(me[1],
                           <<LowestTerms(s)[1] * LowestTerms(sp)[2]
                               - LowestTerms(sp)[1] * LowestTerms(s)[2],
                             LowestTerms(s)[2] * LowestTerms(sp)[2] * (t - tp)>>)

\* The CortexA7 compute_metrics has returned for cycles 1000, 600, 400 at
\* threads 1, 2, 4: the last point has local_speedup 3/2, local_efficiency 3/4
\* and marginal_efficiency 5/12.
C15_Witness ==
    /\ mscript = "A7speedup" /\ mres # None /\ mres[1].ok
    /\ [i \in 1..Len(mpoints) |-> mpoints[i].threads] = <<1, 2, 4>>
    /\ [i \in 1..Len(mpoints) |-> mpoints[i].cycles] = <<1000, 600, 400>>
    /\ RatEq(mres[1].value[3].local_speedup[1], <<3, 2>>)
    /\ RatEq(mres[1].value[3].local_efficiency[1], <<3, 4>>)
    /\ RatEq(mres[1].value[3].marginal_efficiency[1], <<5, 12>>)

\* The last loop iteration read a matched directory that max_threads and
\* STATUS.txt let through and whose stats.txt has size 0.
EmptyStatsOnCur ==
    /\ cur # None
    /\ cur[1].is_dir
    /\ DirKey(script, cur[1].name) # None
    /\ ~(max_threads # None /\ DirKey(script, cur[1].name)[1].threads > max_threads[1])
    /\ cur[1].status = None \/ BeginsWithOK(Strip(cur[1].status[1]))
    /\ cur[1].stats = Some(<<>>)

\* C16: for a matched directory whose stats.txt has size 0, exactly one
\* warning is recorded, which says the file is empty and is not a message of
\* the parser, no point is added, no exception is raised, and the scan is
\* still in its loop, at the next entry of the listing.
C16_EmptyStatsIsOneWarning ==
    EmptyStatsOnCur =>
        /\ PointsOnCur = <<>>
        /\ Len(WarningsOnCur) = 1
        /\ WarningsOnCur[1].kind = "stats.txt vide"
        /\ WarningsOnCur[1].kind # ParseFile(script, <<>>).error
        /\ st.warnings[Len(st.warnings)] = WarningsOnCur[1]
        /\ st.raised = "" /\ pc = "scan" /\ exit = None
        /\ idx <= Len(listing) + 1 /\ listing[idx - 1] = cur[1].name

\* A directory with an empty stats.txt gave its warning and the directory
\* after it in the listing gave a point.
C16_Witness ==
    /\ pc = "scan" /\ cur # None /\ idx = 3
    /\ st.warnings = <<Warning(Simulation(script, root), listing[1], "stats.txt vide", <<>>)>>
    /\ Len(st.points) = 1
    /\ st.points[1].folder = listing[2]

\* The folders of a list of points or warnings are in strictly ascending
\* lexicographic order.
AscendingByName(xs) ==
    \A i \in 1..(Len(xs) - 1) : StrLess(xs[i].folder, xs[i + 1].folder)

\* C17 as stated: the points each collect call returns are in lexicographic
\* order of their directory names.
C17_ReturnedInNameOrder ==
    \A r \in 1..Len(returned) : AscendingByName(returned[r].points)

\* The sort key of the points of the script: (width, threads) for CortexA15,
\* threads for CortexA7.
KeyBefore(a, b) ==
    IF script \in {"A15perf", "A15ipc"}
    THEN a.width < b.width \/ (a.width = b.width /\ a.threads < b.threads)
    ELSE a.threads < b.threads

\* C17, amended: the directories are read in lexicographic order of their
\* names, so during the scan the points and the warnings are in name order;
\* the list of points a collect call returns is sorted by the key of the
\* script, points of equal key being in name order, and its warnings are in
\* name order.
C17_ScanInNameOrderReturnedInKeyOrder ==
    /\ AscendingByName([i \in 1..Len(listing) |-> [folder |-> listing[i]]])
    /\ (pc = "scan" /\ cur # None) => cur[1].name = listing[idx - 1]
    /\ AscendingByName(st.points)
    /\ AscendingByName(st.warnings)
    /\ \A r \in 1..Len(returned) :
         /\ AscendingByName(returned[r].warnings)
         /\ \A i \in 1..(Len(returned[r].points) - 1) :
              LET a == returned[r].points[i]
                  b == returned[r].points[i + 1]
              IN  \/ KeyBefore(a, b)
                  \/ ~KeyBefore(b, a) /\ StrLess(a.folder, b.folder)

\* A collect call returned two points whose key order is the reverse of the
\* order of their directory names.
C17_Witness ==
    /\ returned # <<>>
    /\ Len(returned[1].points) = 2
    /\ KeyBefore(returned[1].points[1], returned[1].points[2])
    /\ StrLess(returned[1].points[2].folder, returned[1].points[1].folder)

\* C18: within one root no two collected points share the configuration key
\* ((width, threads) for CortexA15, threads for CortexA7), so the points of
\* each series the metric stage receives have strictly increasing thread
\* counts.
C18_KeysUniquePerRoot ==
    \A r \in 1..Len(returned) :
        \A i \in 1..(Len(returned[r].points) - 1) :
            KeyBefore(returned[r].points[i], returned[r].points[i + 1])

\* The values of the per-core IPC lines of the file pfile, in order.
IpcSamplesOfFile ==
    LET hits == SelectSeq(pfile, LAMBDA l : IPC_RE(l) # None)
    IN  [i \in 1..Len(hits) |-> IPC_RE(hits[i])[1]]

\* C19: the per-core IPC samples are optional for parse_stats: a file with a
\* positive cycle count and a positive instruction count yields a record with
\* ipc_global even when it has no IPC line, and a record of a file with IPC
\* lines has ipc_max = the maximum of all of them.
C19_IpcSamplesOptional ==
    (pscript = "A15ipc" /\ pres # None) =>
        /\ ( /\ CycleCountsOfFile # <<>> /\ MaxOf(CycleCountsOfFile) > 0
             /\ LastSimInstsOfFile > 0 )
           => pres[1].ok /\ pres[1].ipc_global # None
        /\ (pres[1].ok /\ IpcSamplesOfFile # <<>>) =>
             /\ pres[1].ipc_max # None
             /\ RatEq(pres[1].ipc_max[1], MaxRatOf(IpcSamplesOfFile))

\* Some clock period > 0 is found in the file pfile: its first core-local
\* clock value or its first system-wide clock value is positive.
PositivePeriodInFile ==
    \/ FirstCpuClockOfFile # None /\ FirstCpuClockOfFile[1] > 0
    \/ FirstSysClockOfFile # None /\ FirstSysClockOfFile[1] > 0

\* C20: on a file without numCycles lines, parse_cycles
\* (plot_performance_cortexA15, plot_cycles_cortexA7) returns a derived cycle
\* count whenever the file has a sim_ticks value and a clock period > 0,
\* whichever of the core-local and system-wide clock lines are present and
\* whether their values are zero or positive.
C20_FallbackWheneverPositivePeriod ==
    ( /\ pscript \in {"A15perf", "A7cycles"} /\ pres # None
      /\ CycleCountsOfFile = <<>>
      /\ FirstTicksOfFile # None /\ PositivePeriodInFile )
    => pres[1].ok

\* The points of width w of the list mpoints, and whether a metric of one of
\* them is undefined (cycles 0 or threads 0).
SeriesOfWidth(w) == SelectSeq(mpoints, LAMBDA p : p.width = w)

MalformedSeries(w) ==
    \E i \in 1..Len(SeriesOfWidth(w)) :
        SeriesOfWidth(w)[i].cycles = 0 \/ SeriesOfWidth(w)[i].threads = 0

\* C21: a metric failure of plot_performance_cortexA15.compute_metrics is
\* fatal for its own width series only: every width series of the input that
\* is not malformed is returned, each of its points with its speedup and
\* efficiency computed, whatever the series of the other widths hold.
C21_MetricFailureFatalForOwnSeriesOnly ==
    (mscript = "A15perf" /\ mres # None) =>
        \A w \in {mpoints[i].width : i \in 1..Len(mpoints)} :
            ~MalformedSeries(w) =>
                /\ mres[1].ok
                /\ \E g \in 1..Len(mres[1].value) :
                     /\ mres[1].value[g].width = w
                     /\ Len(mres[1].value[g].values) = Len(SeriesOfWidth(w))
                     /\ \A i \in 1..Len(mres[1].value[g].values) :
                          /\ mres[1].value[g].values[i].speedup # None
                          /\ mres[1].value[g].values[i].efficiency # None

(***************************************************************************)
(* A parser run on a file of one line whose value token is any text of at  *)
(* most MaxToken characters                                                *)
(***************************************************************************)
\* The most characters of the value token.
MaxToken == 4

\* The characters the value token is made of.
TokenChars == {"1", "5", ".", "e", "a", "-"}

\* The labels of the line: one per signal, and one no expression recognizes.
TokenLabels ==
    {"system.cpu0.numCycles", "sim_insts", "system.cpu0.ipc", "sim_ticks",
     "system.cpu_clk_domain.clock", "host_seconds"}

InitToken ==
    /\ pscript \in Scripts
    /\ \E label \in TokenLabels, more \in BOOLEAN : pfile = <<Line(label, <<>>, more)>>
    /\ pacc = Acc0 /\ pres = None
    /\ RunIdle /\ MetricIdle

\* One more character of the value token of the line.
TypeChar ==
    /\ pscript # "" /\ pres = None
    /\ Len(pfile[1].val) < MaxToken
    /\ \E c \in TokenChars : pfile' = <<[pfile[1] EXCEPT !.val = Append(@, c)]>>
    /\ UNCHANGED <<pscript, pacc, pres, runVars, metricVars>>

\* The parser of the script reads the line and reaches the end of the file.
ParseOneLine ==
    /\ pscript # "" /\ pres = None
    /\ pacc' = ParseLine(pscript, pacc, pfile[1])
    /\ pres' = Some(ParseEnd(pscript, pacc'))
    /\ UNCHANGED <<pscript, pfile, runVars, metricVars>>

NextToken ==
    \/ TypeChar
    \/ ParseOneLine

SpecToken == InitToken /\ [][NextToken]_vars

\* The token is entirely an unsigned integer, or entirely a decimal number
\* (digits, optionally a point and digits).
WholeInt(tok) == tok # <<>> /\ \A i \in 1..Len(tok) : tok[i] \in Digits

WholeDecimal(tok) ==
    \/ WholeInt(tok)
    \/ \E k \in 1..(Len(tok) - 2) :
         /\ tok[k + 1] = "."
         /\ WholeInt(SubSeq(tok, 1, k))
         /\ WholeInt(SubSeq(tok, k + 2, Len(tok)))

\* C22: a line contributes a value to the parser that reads it only if its
\* value token is entirely a number of the kind of its signal (an integer, a
\* decimal for an IPC line); a token that only begins with such a number
\* (123.45 or 12abc for an integer signal, 1.5e-05 for an IPC signal) or is
\* no number (nan) contributes nothing.
C22_OnlyCompleteNumbersContribute ==
    (Len(pfile) = 1 /\ pacc # Acc0) =>
        IF pfile[1].label \in IpcLabels
        THEN WholeDecimal(pfile[1].val)
        ELSE WholeInt(pfile[1].val)

\* C23 as stated: once the collect calls of a run have returned, no field of
\* any point changes: neither compute_metrics nor a later plot, CSV or report
\* step writes into the points.
C23_PointsNeverChangeAfterCollect ==
    [][(pc \in {"main", "output"} => returned' = returned)]_vars

\* The fields collect_points gives a point from the directory and its log.
CollectedFields(p) ==
    <<p.simulation, p.width, p.threads, p.cycles, p.sim_insts, p.ipc_global,
      p.ipc_max, p.folder>>

\* The points of what compute_metrics returned: those of all the width series
\* (plot_performance_cortexA15), or the list (plot_speedup_cortexA7).
PointsOfMetrics(s, res) ==
    IF s = "A15perf"
    THEN UNION {{res.value[g].values[i] : i \in 1..Len(res.value[g].values)} :
                  g \in 1..Len(res.value)}
    ELSE {res.value[i] : i \in 1..Len(res.value)}

\* C23, amended: after the collect calls have returned, no step changes the
\* threads, cycles, width, folder or log values of a point, nor adds or drops
\* one; compute_metrics writes its metrics once into the very points
\* collect_points returned, over their default speedup 0.0, so that the
\* points of main's list are those of the returned series; group_by_width
\* writes nothing; and no plot, CSV or report step changes any field of any
\* point or of the metrics.
C23_MetricsWrittenInPlaceOnce ==
    [][(pc \in {"main", "output"} =>
         /\ Len(returned') = Len(returned)
         /\ \A r \in 1..Len(returned) :
              /\ returned'[r].warnings = returned[r].warnings
              /\ Len(returned'[r].points) = Len(returned[r].points)
              /\ \A i \in 1..Len(returned[r].points) :
                   CollectedFields(returned'[r].points[i]) =
                       CollectedFields(returned[r].points[i])
         /\ pc = "output" => returned' = returned /\ metrics' = metrics
         /\ (pc = "main" /\ script \notin {"A15perf", "A7speedup"}) => returned' = returned
         /\ (pc = "main" /\ pc' = "output" /\ script \in {"A15perf", "A7speedup"}) =>
              \A i \in 1..Len(returned[1].points) :
                  /\ returned[1].points[i].speedup = Some(<<0, 1>>)
                  /\ returned'[1].points[i].speedup[1][1] > 0
                  /\ returned'[1].points[i] \in PointsOfMetrics(script, metrics'[1]))
    ]_vars

\* compute_metrics has written the speedup of two collected points and a plot
\* has been drawn from them.
C23_Witness ==
    /\ pc = "output" /\ script = "A15perf" /\ sinks # <<>>
    /\ Len(returned[1].points) = 2
    /\ \A i \in 1..2 : returned[1].points[i].speedup[1][1] > 0

\* The entry e is a sub-directory whose name matches a grammar of the script
\* and whose thread count --max-threads lets through.
Counted(e) ==
    /\ e.is_dir
    /\ DirKey(script, e.name) # None
    /\ ~OverMaxThreads(max_threads, DirKey(script, e.name)[1].threads)

\* C24: in the scan of an existing root, every sub-directory whose name
\* matches and that passes the max-thread filter adds exactly one entry,
\* either one point or one warning, named after it and added at the end of
\* its list; any other entry adds nothing; the scan starts with both lists
\* empty and collect returns the entries of the scan, so after any prefix of
\* the scan len(points) + len(warnings) is the number of such directories
\* read so far.
C24_OneEntryPerCountedDirectory ==
    [][( /\ (pc = "collect" /\ pc' = "scan") => st' = Lists(<<>>, <<>>)
         /\ (pc = "scan" /\ idx' = idx + 1) =>
              LET e  == cur'[1]
                  np == Len(st'.points) - Len(st.points)
                  nw == Len(st'.warnings) - Len(st.warnings)
              IN  /\ e.name = listing[idx]
                  /\ np >= 0 /\ nw >= 0
                  /\ SubSeq(st'.points, 1, Len(st.points)) = st.points
                  /\ SubSeq(st'.warnings, 1, Len(st.warnings)) = st.warnings
                  /\ np + nw = (IF Counted(e) THEN 1 ELSE 0)
                  /\ np = 1 => st'.points[Len(st'.points)].folder = e.name
                  /\ nw = 1 => st'.warnings[Len(st'.warnings)].folder = e.name
                  /\ st'.raised = "" /\ pc' = "scan"
         /\ (pc = "scan" /\ pc' # "scan") =>
              /\ idx = Len(listing) + 1
              /\ Len(returned') = Len(returned) + 1
              /\ Len(returned'[Len(returned')].points) = Len(st.points)
              /\ returned'[Len(returned')].warnings = st.warnings )
    ]_vars

\* The scan has read two matching sub-directories: one gave a point and the
\* other a warning.
C24_Witness ==
    /\ pc = "scan" /\ idx = 3 /\ cur # None /\ Counted(cur[1])
    /\ Len(st.points) = 1 /\ Len(st.warnings) = 1
    /\ st.points[1].folder # st.warnings[1].folder

====
